---- MODULE Spec2Model ----
(***************************************************************************)
(* A model of the URL shortener: the URL service (Create, Resolve,         *)
(* GetStats, Delete) over a PostgreSQL store and a Redis cache, the        *)
(* fire-and-forget goroutines it spawns, the periodic sweep, and the HTTP  *)
(* middleware chain (rate limiter, API-key authentication, handlers).      *)
(*                                                                         *)
(* Strings whose characters the code inspects are sequences of             *)
(* one-character strings.  A Go pointer is a sequence of length 0 (nil)    *)
(* or 1.  A Go error is the sequence of the messages of its %w chain       *)
(* (outermost first); nil is the empty sequence.  Time is in seconds.      *)
(*                                                                         *)
(* Atomicity: one step per operation on the store or on Redis.  The local  *)
(* computation that follows the last such operation of a handler           *)
(* (expiration check, spawning goroutines, building the response) belongs  *)
(* to that operation's step.                                               *)
(***************************************************************************)
EXTENDS Integers, Sequences, FiniteSets, Bags, TLC

VARIABLES
    urls,       \* table urls: a set of rows
    api_keys,   \* table api_keys: a set of rows
    redis,      \* Redis: key -> [val, exp]; exp is <<>> or <<instant>>
    tasks,      \* bag of goroutines spawned and not yet run
    now,        \* the clock, in seconds
    nextID,     \* source of fresh uuid values
    pc,         \* per request slot: where its handler stands
    req,        \* per request slot: the request and the handler's locals
    nreq,       \* number of requests accepted so far
    gone,       \* codes whose Delete returned success, having invalidated the cache,
                \* and that were not issued since the row was deleted
    hits,       \* <<identifier, window>> -> requests the rate limiter counted (n)
                \* and, of these, requests it let through (allowed)
    served,     \* code -> number of Resolve calls that returned a destination for it
                \* since the record now stored under it was created
    swept,      \* codes whose row a sweep removed and that were not issued since
    job,        \* runCleanupJob: its context, its ticker's channel, whether it returned
    ev          \* what the last step returned to a caller, if anything

vars ==
    <<urls, api_keys, redis, tasks, now, nextID, pc, req, nreq, gone, hits, served, swept, job, ev>>

-----------------------------------------------------------------------------
(* Bounds of the model *)

MaxReqs == 4
MaxTasks == 2
MaxTime == 3
MaxWindows == 2

\* config.RateLimit.RequestsPerMinute, scaled (the default is 60)
defaultLimit == 2

\* the request slots: two requests may be in flight at once
Procs == {1, 2}

\* slots are interchangeable: a request takes the lowest free one
LowestFree(p) == \A q \in Procs : q < p => pc[q] # "idle"

(* Program constants *)

maxRetries == 5
DefaultCodeLength == 8
MaxCustomLength == 16
MinCodeLength == 3
MinURLLength == 10
MaxURLLength == 2083
Base == 62
windowSize == 60

\* config.Redis.CacheTTL, scaled to the model's clock (the default is one hour)
CacheTTL == 2

Nil == <<>>
NoErr == <<>>

-----------------------------------------------------------------------------
(* Characters *)

Digits == <<"0","1","2","3","4","5","6","7","8","9">>
Upper == <<"A","B","C","D","E","F","G","H","I","J","K","L","M",
           "N","O","P","Q","R","S","T","U","V","W","X","Y","Z">>
Lower == <<"a","b","c","d","e","f","g","h","i","j","k","l","m",
           "n","o","p","q","r","s","t","u","v","w","x","y","z">>

base62Chars == Digits \o Upper \o Lower

Range(s) == {s[i] : i \in 1..Len(s)}

IndexOf(ch, s) == CHOOSE i \in 1..Len(s) : s[i] = ch

\* strings.ToLower on ASCII
ToLowerChar(ch) == IF ch \in Range(Upper) THEN Lower[IndexOf(ch, Upper)] ELSE ch
ToLower(s) == [i \in 1..Len(s) |-> ToLowerChar(s[i])]

\* strings.HasPrefix
HasPrefix(s, p) == Len(s) >= Len(p) /\ SubSeq(s, 1, Len(p)) = p

-----------------------------------------------------------------------------
(* Errors *)

ErrNotFound == "resource not found"
ErrAlreadyExists == "resource already exists"
ErrURLNotFound == "URL not found"
ErrURLExpired == "URL has expired"
ErrCodeTaken == "short code already taken"
ErrInvalidCode == "invalid short code format"
ErrInvalidURL == "invalid URL format"
ErrNoRows == "no rows in result set"

\* what the driver reports when the store cannot be reached
ConnErr == <<"failed to connect to database">>
\* what the driver reports for a violated UNIQUE constraint
PgUniqueViolation == <<"ERROR:", "duplicate key", "value violates unique constraint",
                       "(SQLSTATE", "23505", ")">>
\* what the Redis client reports when Redis cannot be reached
RedisErr == <<"dial tcp: connection refused">>

\* errors.New
New(msg) == <<msg>>
\* fmt.Errorf("msg: %w", err)
Wrap(msg, err) == <<msg>> \o err
\* errors.Is
Is(err, target) == \E i \in 1..Len(err) : err[i] = target

contains(s, substr) == \E i \in 1..Len(s) : s[i] = substr

isDuplicateKeyError(err) ==
    err # NoErr /\ (contains(err, "23505") \/ contains(err, "duplicate key"))

-----------------------------------------------------------------------------
(* models *)

UUIDNil == 0

\* models.URL as Create builds it, before the repository fills ID.  CreatedAt is
\* written once and read by no decision of the program: the rows leave it out.
NewURL(shortCode, originalURL, expiresAt) ==
    [ID |-> UUIDNil, ShortCode |-> shortCode, OriginalURL |-> originalURL,
     Clicks |-> 0, APIKeyID |-> Nil, ExpiresAt |-> expiresAt]

\* A mutant of IsExpired: the comparison is off by one second
IsExpiredLate(u, t) == u.ExpiresAt # Nil /\ t > u.ExpiresAt[1] + 1

\* URL.IsExpired at instant t: time.Now().After(*u.ExpiresAt)
IsExpired(u, t) == u.ExpiresAt # Nil /\ t > u.ExpiresAt[1]

\* json.Marshal of a models.URL: api_key_id and expires_at are omitempty
MarshalURL(u) ==
    LET always == [id |-> u.ID, short_code |-> u.ShortCode,
                   original_url |-> u.OriginalURL, clicks |-> u.Clicks]
        key == IF u.APIKeyID = Nil THEN <<>> ELSE [api_key_id |-> u.APIKeyID[1]]
        exp == IF u.ExpiresAt = Nil THEN <<>> ELSE [expires_at |-> u.ExpiresAt[1]]
    IN  always @@ key @@ exp

\* json.Unmarshal into a zero models.URL
UnmarshalURL(j) ==
    [ID |-> j.id, ShortCode |-> j.short_code, OriginalURL |-> j.original_url,
     Clicks |-> j.clicks,
     APIKeyID |-> IF "api_key_id" \in DOMAIN j THEN <<j.api_key_id>> ELSE Nil,
     ExpiresAt |-> IF "expires_at" \in DOMAIN j THEN <<j.expires_at>> ELSE Nil]

-----------------------------------------------------------------------------
(* repository: every operation takes `up`, whether the store answers *)

\* A mutant of UniqueViolation: short_code is not declared UNIQUE
UniqueViolationIDOnly(rows, u) == \E r \in rows : r.ID = u.ID

\* the constraints of table urls: id PRIMARY KEY, short_code UNIQUE
UniqueViolation(rows, u) ==
    \E r \in rows : r.ShortCode = u.ShortCode \/ r.ID = u.ID

\* the error of the INSERT that URLRepository.Create executes
InsertErr(rows, u, up) ==
    IF ~up THEN ConnErr
    ELSE IF UniqueViolation(rows, u) THEN PgUniqueViolation
    ELSE NoErr

\* A mutant of RepoCreate: INSERT ... ON CONFLICT (short_code) DO UPDATE
RepoCreateUpsert(rows, url, up, id) ==
    LET u1 == [url EXCEPT !.ID = IF @ = UUIDNil THEN id ELSE @]
    IN  IF ~up
        THEN [err |-> Wrap("failed to create URL", ConnErr), url |-> u1, rows |-> rows]
        ELSE [err |-> NoErr, url |-> u1,
              rows |-> {r \in rows : r.ShortCode # u1.ShortCode} \cup {u1}]

\* URLRepository.Create; id is the value uuid.New() yields
RepoCreate(rows, url, up, id) ==
    LET u1 == [url EXCEPT !.ID = IF @ = UUIDNil THEN id ELSE @]
        err == InsertErr(rows, u1, up)
    IN  IF err # NoErr
        THEN [err |-> IF isDuplicateKeyError(err) THEN New(ErrAlreadyExists)
                      ELSE Wrap("failed to create URL", err),
              url |-> u1, rows |-> rows]
        ELSE [err |-> NoErr, url |-> u1, rows |-> rows \cup {u1}]

RowsOf(rows, shortCode) == {r \in rows : r.ShortCode = shortCode}

\* URLRepository.GetByShortCode
RepoGetByShortCode(rows, shortCode, up) ==
    IF ~up THEN [url |-> Nil, err |-> Wrap("failed to get URL", ConnErr)]
    ELSE IF RowsOf(rows, shortCode) = {} THEN [url |-> Nil, err |-> New(ErrNotFound)]
    ELSE [url |-> <<CHOOSE r \in RowsOf(rows, shortCode) : TRUE>>, err |-> NoErr]

\* an UPDATE that sets clicks = 1 in the place of clicks = clicks + 1
RepoIncrementClicksToOne(rows, shortCode, up) ==
    IF ~up THEN [err |-> Wrap("failed to increment clicks", ConnErr), rows |-> rows]
    ELSE IF RowsOf(rows, shortCode) = {} THEN [err |-> New(ErrNotFound), rows |-> rows]
    ELSE [err |-> NoErr,
          rows |-> {IF r.ShortCode = shortCode THEN [r EXCEPT !.Clicks = 1] ELSE r
                    : r \in rows}]

\* URLRepository.IncrementClicks
RepoIncrementClicks(rows, shortCode, up) ==
    IF ~up THEN [err |-> Wrap("failed to increment clicks", ConnErr), rows |-> rows]
    ELSE IF RowsOf(rows, shortCode) = {} THEN [err |-> New(ErrNotFound), rows |-> rows]
    ELSE [err |-> NoErr,
          rows |-> {IF r.ShortCode = shortCode THEN [r EXCEPT !.Clicks = @ + 1] ELSE r
                    : r \in rows}]

\* A mutant of RepoDelete: RowsAffected is not examined
RepoDeleteAnyRows(rows, shortCode, up) ==
    IF ~up THEN [err |-> Wrap("failed to delete URL", ConnErr), rows |-> rows]
    ELSE [err |-> NoErr, rows |-> rows \ RowsOf(rows, shortCode)]

\* URLRepository.Delete
RepoDelete(rows, shortCode, up) ==
    IF ~up THEN [err |-> Wrap("failed to delete URL", ConnErr), rows |-> rows]
    ELSE IF RowsOf(rows, shortCode) = {} THEN [err |-> New(ErrNotFound), rows |-> rows]
    ELSE [err |-> NoErr, rows |-> rows \ RowsOf(rows, shortCode)]

\* A mutant of RepoDeleteExpired: WHERE expires_at <= $1
RepoDeleteExpiredInclusive(rows, t, up) ==
    LET dead == {r \in rows : r.ExpiresAt # Nil /\ r.ExpiresAt[1] <= t}
    IN  IF ~up THEN [count |-> 0, err |-> Wrap("failed to delete expired URLs", ConnErr),
                     rows |-> rows]
        ELSE [count |-> Cardinality(dead), err |-> NoErr, rows |-> rows \ dead]

\* URLRepository.DeleteExpired at instant t
RepoDeleteExpired(rows, t, up) ==
    LET dead == {r \in rows : r.ExpiresAt # Nil /\ r.ExpiresAt[1] < t}
    IN  IF ~up THEN [count |-> 0, err |-> Wrap("failed to delete expired URLs", ConnErr),
                     rows |-> rows]
        ELSE [count |-> Cardinality(dead), err |-> NoErr, rows |-> rows \ dead]

\* A mutant of RepoExists: rows past their expiration do not count
RepoExistsLive(rows, shortCode, up) ==
    IF ~up THEN [exists |-> FALSE, err |-> Wrap("failed to check existence", ConnErr)]
    ELSE [exists |-> \E r \in RowsOf(rows, shortCode) :
                        r.ExpiresAt = Nil \/ r.ExpiresAt[1] >= now,
          err |-> NoErr]

\* URLRepository.Exists
RepoExists(rows, shortCode, up) ==
    IF ~up THEN [exists |-> FALSE, err |-> Wrap("failed to check existence", ConnErr)]
    ELSE [exists |-> RowsOf(rows, shortCode) # {}, err |-> NoErr]

\* APIKeyRepository.GetByKeyHash: only active keys match
GetByKeyHash(keys, keyHash, up) ==
    LET found == {k \in keys : k.KeyHash = keyHash /\ k.IsActive}
    IN  IF ~up THEN [key |-> Nil, err |-> Wrap("failed to get API key", ConnErr)]
        ELSE IF found = {} THEN [key |-> Nil, err |-> New(ErrNotFound)]
        ELSE [key |-> <<CHOOSE k \in found : TRUE>>, err |-> NoErr]

\* APIKeyRepository.UpdateLastUsed at instant t
UpdateLastUsed(keys, id, t, up) ==
    IF ~up THEN keys
    ELSE {IF k.ID = id THEN [k EXCEPT !.LastUsedAt = <<t>>] ELSE k : k \in keys}

-----------------------------------------------------------------------------
(* database.RedisDB: every operation takes `up`, whether Redis answers *)

CacheKey(shortCode) == <<"url:", shortCode>>

\* A mutant of RateLimitKey: the key does not name the window
RateLimitKeyNoWindow(identifier, window) == <<"ratelimit:", identifier, 0>>

\* window is an instant at a window boundary
RateLimitKey(identifier, window) == <<"ratelimit:", identifier, window \div 60>>

Put(f, k, v) == [x \in DOMAIN f \cup {k} |-> IF x = k THEN v ELSE f[x]]
Drop(f, k) == [x \in DOMAIN f \ {k} |-> f[x]]

\* Redis forgets a key at its expiration instant
PurgeExpired(r, t) ==
    [k \in {x \in DOMAIN r : r[x].exp = Nil \/ r[x].exp[1] > t} |-> r[k]]

\* RedisDB.Get: redis.Nil (no such key) is a miss, not an error
RedisGet(r, key, up) ==
    IF ~up THEN [data |-> Nil, err |-> Wrap("redis get failed", RedisErr)]
    ELSE IF key \notin DOMAIN r THEN [data |-> Nil, err |-> NoErr]
    ELSE [data |-> <<r[key].val>>, err |-> NoErr]

\* RedisDB.SetWithTTL at instant t: the client sends an expiration only when ttl > 0
RedisSetWithTTL(r, key, value, ttl, t, up) ==
    IF ~up THEN [err |-> Wrap("redis set failed", RedisErr), redis |-> r]
    ELSE [err |-> NoErr,
          redis |-> Put(r, key, [val |-> value,
                                 exp |-> IF ttl > 0 THEN <<t + ttl>> ELSE Nil])]

\* RedisDB.Delete
RedisDelete(r, key, up) ==
    IF ~up THEN [err |-> Wrap("redis delete failed", RedisErr), redis |-> r]
    ELSE [err |-> NoErr, redis |-> Drop(r, key)]

\* INCR: the value after the increment; a missing key counts from 0 and gets
\* no expiration
RedisIncr(r, key, up) ==
    IF ~up THEN [count |-> 0, err |-> RedisErr, redis |-> r]
    ELSE LET old == IF key \in DOMAIN r THEN r[key] ELSE [val |-> [int |-> 0], exp |-> Nil]
             count == old.val.int + 1
         IN  [count |-> count, err |-> NoErr,
              redis |-> Put(r, key, [old EXCEPT !.val = [int |-> count]])]

\* EXPIRE at instant t
RedisExpire(r, key, ttl, t, up) ==
    IF ~up THEN [err |-> RedisErr, redis |-> r]
    ELSE IF key \notin DOMAIN r THEN [err |-> NoErr, redis |-> r]
    ELSE [err |-> NoErr, redis |-> Put(r, key, [r[key] EXCEPT !.exp = <<t + ttl>>])]

\* RedisDB.GetJSON into a models.URL
GetJSON(r, key, up) ==
    LET got == RedisGet(r, key, up)
    IN  IF got.err # NoErr THEN [found |-> FALSE, err |-> got.err, url |-> Nil]
        ELSE IF got.data = Nil THEN [found |-> FALSE, err |-> NoErr, url |-> Nil]
        ELSE [found |-> TRUE, err |-> NoErr, url |-> <<UnmarshalURL(got.data[1])>>]

\* RedisDB.SetJSON of a models.URL
SetJSON(r, key, url, ttl, t, up) == RedisSetWithTTL(r, key, MarshalURL(url), ttl, t, up)

-----------------------------------------------------------------------------
(* service: pure helpers *)

\* A URL is the first eight of its characters, its length and the rest (tag)
HTTPPrefix == <<"h","t","t","p",":","/","/">>
HTTPSPrefix == <<"h","t","t","p","s",":","/","/">>

\* A mutant of isValidURL: the length check uses <= and >=
isValidURLExclusive(rawURL) ==
    IF ~HasPrefix(rawURL.head, HTTPPrefix) /\ ~HasPrefix(rawURL.head, HTTPSPrefix)
    THEN FALSE
    ELSE IF rawURL.len <= MinURLLength \/ rawURL.len >= MaxURLLength THEN FALSE
    ELSE TRUE

isValidURL(rawURL) ==
    IF ~HasPrefix(rawURL.head, HTTPPrefix) /\ ~HasPrefix(rawURL.head, HTTPSPrefix)
    THEN FALSE
    ELSE IF rawURL.len < MinURLLength \/ rawURL.len > MaxURLLength THEN FALSE
    ELSE TRUE

\* A mutant of isValidShortCode: a code of maxLength characters is too long
isValidShortCodeExclusive(code, maxLength) ==
    IF Len(code) < MinCodeLength \/ Len(code) >= maxLength THEN FALSE
    ELSE \A i \in 1..Len(code) :
            code[i] \in Range(Lower) \cup Range(Upper) \cup Range(Digits)

isValidShortCode(code, maxLength) ==
    IF Len(code) < MinCodeLength \/ Len(code) > maxLength THEN FALSE
    ELSE \A i \in 1..Len(code) :
            code[i] \in Range(Lower) \cup Range(Upper) \cup Range(Digits)

\* A mutant of generateRandomCode: the byte is reduced modulo 64
generateRandomCodeMod64(bytes) ==
    [i \in 1..Len(bytes) |-> base62Chars[(bytes[i] % 64) + 1]]

\* generateRandomCode, given the bytes rand.Read yields
generateRandomCode(bytes) ==
    [i \in 1..Len(bytes) |-> base62Chars[(bytes[i] % Base) + 1]]

\* the time-to-live cacheURL computes at instant t
cacheTTLFor(url, t) ==
    IF url.ExpiresAt # Nil /\ url.ExpiresAt[1] - t < CacheTTL
    THEN url.ExpiresAt[1] - t
    ELSE CacheTTL

\* URLService.cacheURL at instant t
cacheURL(r, url, t, up) ==
    SetJSON(r, CacheKey(url.ShortCode), url, cacheTTLFor(url, t), t, up)

\* the zero value of models.URL
ZeroURL ==
    [ID |-> UUIDNil, ShortCode |-> <<>>,
     OriginalURL |-> [head |-> <<>>, len |-> 0, tag |-> ""],
     Clicks |-> 0, APIKeyID |-> Nil, ExpiresAt |-> Nil]

\* A mutant of getFromCache: on a read error it returns &url with the error
getFromCacheZero(r, shortCode, up) ==
    LET got == GetJSON(r, CacheKey(shortCode), up)
    IN  IF got.err # NoErr THEN [url |-> <<ZeroURL>>, err |-> got.err]
        ELSE IF ~got.found THEN [url |-> Nil, err |-> NoErr]
        ELSE [url |-> got.url, err |-> NoErr]

\* URLService.getFromCache
getFromCache(r, shortCode, up) ==
    LET got == GetJSON(r, CacheKey(shortCode), up)
    IN  IF got.err # NoErr THEN [url |-> Nil, err |-> got.err]
        ELSE IF ~got.found THEN [url |-> Nil, err |-> NoErr]
        ELSE [url |-> got.url, err |-> NoErr]

\* models.ErrorResponse; Code and Details are omitempty
ErrorResponse(error, code, details) ==
    [error |-> error, code |-> code, details |-> details]

\* A mutant of handleError: the default case reports the error it was given
handleErrorVerbose(err) ==
    IF Is(err, ErrURLNotFound)
    THEN [status |-> 404, body |-> ErrorResponse("URL not found", "NOT_FOUND", "")]
    ELSE IF Is(err, ErrURLExpired)
    THEN [status |-> 410, body |-> ErrorResponse("URL has expired", "EXPIRED", "")]
    ELSE IF Is(err, ErrCodeTaken)
    THEN [status |-> 409, body |-> ErrorResponse("Short code already taken", "CONFLICT", "")]
    ELSE IF Is(err, ErrInvalidCode)
    THEN [status |-> 400,
          body |-> ErrorResponse("Invalid short code format", "INVALID_INPUT",
                                 "Code must be 3-16 alphanumeric characters")]
    ELSE IF Is(err, ErrInvalidURL)
    THEN [status |-> 400,
          body |-> ErrorResponse("Invalid URL format", "INVALID_INPUT",
                                 "URL must start with http:// or https://")]
    ELSE [status |-> 500,
          body |-> ErrorResponse("Internal server error", "INTERNAL_ERROR", err[1])]

\* URLHandler.handleError: the status and the body of the response for a
\* service error
handleError(err) ==
    IF Is(err, ErrURLNotFound)
    THEN [status |-> 404, body |-> ErrorResponse("URL not found", "NOT_FOUND", "")]
    ELSE IF Is(err, ErrURLExpired)
    THEN [status |-> 410, body |-> ErrorResponse("URL has expired", "EXPIRED", "")]
    ELSE IF Is(err, ErrCodeTaken)
    THEN [status |-> 409, body |-> ErrorResponse("Short code already taken", "CONFLICT", "")]
    ELSE IF Is(err, ErrInvalidCode)
    THEN [status |-> 400,
          body |-> ErrorResponse("Invalid short code format", "INVALID_INPUT",
                                 "Code must be 3-16 alphanumeric characters")]
    ELSE IF Is(err, ErrInvalidURL)
    THEN [status |-> 400,
          body |-> ErrorResponse("Invalid URL format", "INVALID_INPUT",
                                 "URL must start with http:// or https://")]
    ELSE [status |-> 500,
          body |-> ErrorResponse("Internal server error", "INTERNAL_ERROR", "")]

\* the status a handler answers with: okStatus when the service returned no error
StatusOf(err, okStatus) == IF err = NoErr THEN okStatus ELSE handleError(err).status

\* the error body a handler answers with, none when the service returned no error
BodyOf(err) == IF err = NoErr THEN Nil ELSE <<handleError(err).body>>

-----------------------------------------------------------------------------
(* Inputs *)

URLa == [head |-> <<"h","t","t","p","s",":","/","/">>, len |-> 36, tag |-> "a"]
URLb == [head |-> <<"h","t","t","p",":","/","/","b">>, len |-> 19, tag |-> "b"]
URLftp == [head |-> <<"f","t","p",":","/","/","c",".">>, len |-> 19, tag |-> "c"]

URLInputs == {URLa, URLb, URLftp}

\* aliases: one that is valid once lower-cased, one too short
AliasInputs == {<<"A","b","c">>, <<"a","b">>}
NoAlias == <<>>

ExpiresInInputs == {0, 1}

\* what rand.Read may yield: 36 and 98 map to the same character, 37 to the next
RandomBytes == {[i \in 1..DefaultCodeLength |-> b] : b \in {36, 98, 37}}

AliasCodes == {ToLower(a) : a \in {x \in AliasInputs : Len(x) >= MinCodeLength}}
GeneratedCodes == {generateRandomCode(b) : b \in RandomBytes}

\* URLs at the edges of isValidURL: five beginnings, each at the lengths
\* around MinURLLength and MaxURLLength, and one shorter than its scheme
URLHeads ==
    {<<"h","t","t","p","s",":","/","/">>,
     <<"h","t","t","p",":","/","/","b">>,
     <<"f","t","p",":","/","/","c",".">>,
     <<"H","T","T","P",":","/","/","x">>,
     <<"h","t","t","p","s",":","/","x">>}
URLLengths == {MinURLLength - 1, MinURLLength, MaxURLLength, MaxURLLength + 1}
URLBoundary ==
    {[head |-> h, len |-> n, tag |-> "e"] : h \in URLHeads, n \in URLLengths}
        \cup {[head |-> <<"h","t","t","p",":","/">>, len |-> 6, tag |-> "e"]}

\* aliases at the edges of isValidShortCode: lengths 2, 3, 16 and 17, two
\* spellings of one code, and characters that are not alphanumeric
AliasBoundary ==
    {<<"a","b">>, <<"Z","9">>,
     <<"A","b","c">>, <<"a","B","C">>, <<"0","z","9">>,
     <<"a","-","b">>, <<"A","@","1">>,
     <<"A","B","C","D","E","F","G","H","I","J","0","1","2","3","4","5">>,
     <<"a","b","c","d","e","f","g","h","i","j","0","1","2","3","4","_">>,
     <<"a","b","c","d","e","f","g","h","i","j","0","1","2","3","4","5","6">>}
BoundaryCodes ==
    {ToLower(a) : a \in {x \in AliasBoundary :
                            isValidShortCode(ToLower(x), MaxCustomLength)}}

-----------------------------------------------------------------------------
(* State *)

Idle == [op |-> "none"]
NoEv == [kind |-> "none"]

\* the goroutines the service spawns
CacheTask(url) == [kind |-> "cacheURL", url |-> url]
ClickTask(shortCode) == [kind |-> "IncrementClicks", shortCode |-> shortCode]

One(task) == SetToBag({task})

\* a handler returns: the slot is free again and ev holds the response
Return(p, event) ==
    /\ pc' = [pc EXCEPT ![p] = "idle"]
    /\ req' = [req EXCEPT ![p] = Idle]
    /\ ev' = event

\* a handler goes on to its next store or cache operation
Goto(p, label, r) ==
    /\ pc' = [pc EXCEPT ![p] = label]
    /\ req' = [req EXCEPT ![p] = r]
    /\ ev' = NoEv

-----------------------------------------------------------------------------
(* URLService.Create, called by URLHandler.Shorten *)

CreateEvent(r, shortCode, err, storeUp, lost, url) ==
    [kind |-> "Create", r |-> r, shortCode |-> shortCode, err |-> err,
     status |-> StatusOf(err, 201), body |-> BodyOf(err), storeDown |-> ~storeUp,
     lost |-> lost, url |-> url]

\* A mutant of GenerateStep: the loop runs while i <= maxRetries
GenerateStepOneMore(p, r, i) ==
    \E bytes \in RandomBytes, up \in BOOLEAN :
       LET code == generateRandomCode(bytes)
           ex == RepoExists(urls, code, up)
           locals == [op |-> "Create", r |-> r, shortCode |-> code, i |-> i,
                      expiresAt |-> Nil]
       IN  IF ex.err # NoErr
           THEN Return(p, CreateEvent(r, <<>>, Wrap("failed to generate code", ex.err),
                                      up, FALSE, Nil))
           ELSE IF ~ex.exists
           THEN Goto(p, "exists", locals)
           ELSE IF i + 1 <= maxRetries
           THEN Goto(p, "generate", [locals EXCEPT !.i = i + 1, !.shortCode = <<>>])
           ELSE Return(p, CreateEvent(r, <<>>,
                   Wrap("failed to generate code",
                        New("failed to generate unique code after retries")),
                   up, FALSE, Nil))

\* one iteration of the loop of generateUniqueCode, for the request r at retry i
GenerateStep(p, r, i) ==
    \E bytes \in RandomBytes, up \in BOOLEAN :
       LET code == generateRandomCode(bytes)
           ex == RepoExists(urls, code, up)
           locals == [op |-> "Create", r |-> r, shortCode |-> code, i |-> i,
                      expiresAt |-> Nil]
       IN  IF ex.err # NoErr
           THEN Return(p, CreateEvent(r, <<>>, Wrap("failed to generate code", ex.err),
                                      up, FALSE, Nil))
           ELSE IF ~ex.exists
           THEN Goto(p, "exists", locals)
           ELSE IF i + 1 < maxRetries
           THEN Goto(p, "generate", [locals EXCEPT !.i = i + 1, !.shortCode = <<>>])
           ELSE Return(p, CreateEvent(r, <<>>,
                   Wrap("failed to generate code",
                        New("failed to generate unique code after retries")),
                   up, FALSE, Nil))

\* step 3, the availability check, and step 4, the expiration instant
ExistsStep(p, r, shortCode) ==
    \E up \in BOOLEAN :
       LET ex == RepoExists(urls, shortCode, up)
       IN  IF ex.err # NoErr
           THEN Return(p, CreateEvent(r, shortCode,
                   Wrap("failed to check code availability", ex.err), up, FALSE, Nil))
           ELSE IF ex.exists
           THEN Return(p, CreateEvent(r, shortCode, New(ErrCodeTaken), up, FALSE, Nil))
           ELSE Goto(p, "insert",
                   [op |-> "Create", r |-> r, shortCode |-> shortCode, i |-> 0,
                    expiresAt |-> IF r.ExpiresIn > 0 THEN <<now + r.ExpiresIn>> ELSE Nil])

\* steps 1 and 2, and the first store operation that follows them
CreateStart(p, r) ==
    /\ UNCHANGED <<urls, api_keys, hits, job, served, redis, tasks, now, nextID, gone, swept>>
    /\ IF ~isValidURL(r.URL)
       THEN Return(p, CreateEvent(r, <<>>, New(ErrInvalidURL), TRUE, FALSE, Nil))
       ELSE IF r.CustomAlias # <<>>
       THEN LET shortCode == ToLower(r.CustomAlias)
            IN  IF ~isValidShortCode(shortCode, MaxCustomLength)
                THEN Return(p, CreateEvent(r, shortCode, New(ErrInvalidCode), TRUE, FALSE, Nil))
                ELSE ExistsStep(p, r, shortCode)
       ELSE GenerateStep(p, r, 0)

\* URLHandler.Shorten with the request bound: a call of Create, its fields
\* drawn from U, A and E
Shorten(p, U, A, E) ==
    /\ pc[p] = "idle"
    /\ LowestFree(p)
    /\ nreq < MaxReqs
    /\ nreq' = nreq + 1
    /\ \E u \in U, a \in A, e \in E :
          CreateStart(p, [URL |-> u, CustomAlias |-> a, ExpiresIn |-> e])

\* a later iteration of the loop of generateUniqueCode
CreateGenerate(p) ==
    /\ pc[p] = "generate"
    /\ UNCHANGED <<urls, api_keys, hits, job, served, redis, tasks, now, nextID, gone, swept, nreq>>
    /\ GenerateStep(p, req[p].r, req[p].i)

\* step 3 for a generated code
CreateExists(p) ==
    /\ pc[p] = "exists"
    /\ UNCHANGED <<urls, api_keys, hits, job, served, redis, tasks, now, nextID, gone, swept, nreq>>
    /\ ExistsStep(p, req[p].r, req[p].shortCode)

\* a Create that waits for the cache write and fails when it fails
CreateInsertAwaitsCache(p) ==
    /\ pc[p] = "insert"
    /\ UNCHANGED <<api_keys, hits, job, tasks, now, nreq>>
    /\ \E up \in BOOLEAN, cacheUp \in BOOLEAN :
          LET url == NewURL(req[p].shortCode, req[p].r.URL, req[p].expiresAt)
              res == RepoCreate(urls, url, up, nextID)
              w == cacheURL(redis, res.url, now, cacheUp)
          IN  IF res.err # NoErr
              THEN /\ UNCHANGED <<urls, redis, nextID, gone, swept, served>>
                   /\ Return(p, CreateEvent(req[p].r, req[p].shortCode,
                                  IF Is(res.err, ErrAlreadyExists) THEN New(ErrCodeTaken)
                                  ELSE Wrap("failed to store URL", res.err),
                                  up, Is(res.err, ErrAlreadyExists), Nil))
              ELSE /\ urls' = res.rows
                   /\ nextID' = nextID + 1
                   /\ redis' = w.redis
                   /\ gone' = gone \ {req[p].shortCode}
                   /\ swept' = swept \ {req[p].shortCode}
                   /\ served' = Put(served, req[p].shortCode, 0)
                   /\ Return(p, CreateEvent(req[p].r, req[p].shortCode,
                                  IF w.err = NoErr THEN NoErr
                                  ELSE Wrap("failed to cache URL", w.err),
                                  up, FALSE, <<res.url>>))

\* A mutant of CreateInsert: the cache write is started before the insert's
\* result is examined
CreateInsertCachesFirst(p) ==
    /\ pc[p] = "insert"
    /\ UNCHANGED <<api_keys, hits, job, redis, now, nreq>>
    /\ \E up \in BOOLEAN :
          LET url == NewURL(req[p].shortCode, req[p].r.URL, req[p].expiresAt)
              res == RepoCreate(urls, url, up, nextID)
          IN  IF res.err # NoErr
              THEN /\ UNCHANGED <<urls, nextID, gone, swept, served>>
                   /\ BagCardinality(tasks) < MaxTasks
                   /\ tasks' = tasks (+) One(CacheTask(url))
                   /\ IF Is(res.err, ErrAlreadyExists)
                      THEN Return(p, CreateEvent(req[p].r, req[p].shortCode, New(ErrCodeTaken),
                                                 up, TRUE, Nil))
                      ELSE Return(p, CreateEvent(req[p].r, req[p].shortCode,
                                     Wrap("failed to store URL", res.err), up, FALSE, Nil))
              ELSE /\ BagCardinality(tasks) < MaxTasks
                   /\ urls' = res.rows
                   /\ nextID' = nextID + 1
                   /\ tasks' = tasks (+) One(CacheTask(res.url))
                   /\ gone' = gone \ {req[p].shortCode}
                   /\ swept' = swept \ {req[p].shortCode}
                   /\ served' = Put(served, req[p].shortCode, 0)
                   /\ Return(p, CreateEvent(req[p].r, req[p].shortCode, NoErr, up, FALSE, <<res.url>>))

\* steps 5 to 8: the insert, the goroutine that caches the record, the response
CreateInsert(p) ==
    /\ pc[p] = "insert"
    /\ UNCHANGED <<api_keys, hits, job, redis, now, nreq>>
    /\ \E up \in BOOLEAN :
          LET url == NewURL(req[p].shortCode, req[p].r.URL, req[p].expiresAt)
              res == RepoCreate(urls, url, up, nextID)
          IN  IF res.err # NoErr
              THEN /\ UNCHANGED <<urls, tasks, nextID, gone, swept, served>>
                   /\ IF Is(res.err, ErrAlreadyExists)
                      THEN Return(p, CreateEvent(req[p].r, req[p].shortCode, New(ErrCodeTaken),
                                                 up, TRUE, Nil))
                      ELSE Return(p, CreateEvent(req[p].r, req[p].shortCode,
                                     Wrap("failed to store URL", res.err), up, FALSE, Nil))
              ELSE /\ BagCardinality(tasks) < MaxTasks
                   /\ urls' = res.rows
                   /\ nextID' = nextID + 1
                   /\ tasks' = tasks (+) One(CacheTask(res.url))
                   /\ gone' = gone \ {req[p].shortCode}
                   /\ swept' = swept \ {req[p].shortCode}
                   /\ served' = Put(served, req[p].shortCode, 0)
                   /\ Return(p, CreateEvent(req[p].r, req[p].shortCode, NoErr, up, FALSE, <<res.url>>))

-----------------------------------------------------------------------------
(* URLService.Resolve, called by URLHandler.Redirect *)

ResolveEvent(shortCode, err, url, src, cacheErr, storeUp, afterDelete) ==
    [kind |-> "Resolve", shortCode |-> shortCode, err |-> err,
     status |-> StatusOf(err, 302), body |-> BodyOf(err),
     originalURL |-> IF err = NoErr THEN <<url[1].OriginalURL>> ELSE Nil,
     record |-> url, src |-> src, cacheErr |-> cacheErr, storeDown |-> ~storeUp,
     afterDelete |-> afterDelete]

\* steps 3 and 4 of Resolve for the record url, with the goroutines spawned so far
ResolveFinish(p, shortCode, url, src, cacheErr, storeUp, afterDelete, spawned) ==
    IF IsExpired(url, now)
    THEN /\ BagCardinality(tasks (+) spawned) <= MaxTasks
         /\ tasks' = tasks (+) spawned
         /\ UNCHANGED served
         /\ Return(p, ResolveEvent(shortCode, New(ErrURLExpired), <<url>>, src,
                                   cacheErr, storeUp, afterDelete))
    ELSE /\ BagCardinality(tasks (+) spawned) < MaxTasks
         /\ tasks' = tasks (+) spawned (+) One(ClickTask(shortCode))
         /\ served' = Put(served, shortCode,
                          IF shortCode \in DOMAIN served THEN served[shortCode] + 1 ELSE 1)
         /\ Return(p, ResolveEvent(shortCode, NoErr, <<url>>, src,
                                   cacheErr, storeUp, afterDelete))

\* A mutant of ResolveStart: a hit writes the record to the cache again
ResolveStartRefreshes(p, shortCode) ==
    /\ UNCHANGED <<urls, api_keys, hits, job, redis, now, nextID, gone, swept>>
    /\ \E up \in BOOLEAN :
          LET c == getFromCache(redis, shortCode, up)
          IN  IF c.url = Nil
              THEN /\ UNCHANGED <<tasks, served>>
                   /\ Goto(p, "db", [op |-> "Resolve", shortCode |-> shortCode,
                                     cacheErr |-> c.err # NoErr,
                                     afterDelete |-> shortCode \in gone])
              ELSE ResolveFinish(p, shortCode, c.url[1], "cache", c.err # NoErr, TRUE,
                                 shortCode \in gone, One(CacheTask(c.url[1])))

\* step 1, the cache read; on a hit the rest of Resolve
ResolveStart(p, shortCode) ==
    /\ UNCHANGED <<urls, api_keys, hits, job, redis, now, nextID, gone, swept>>
    /\ \E up \in BOOLEAN :
          LET c == getFromCache(redis, shortCode, up)
          IN  IF c.url = Nil
              THEN /\ UNCHANGED <<tasks, served>>
                   /\ Goto(p, "db", [op |-> "Resolve", shortCode |-> shortCode,
                                     cacheErr |-> c.err # NoErr,
                                     afterDelete |-> shortCode \in gone])
              ELSE ResolveFinish(p, shortCode, c.url[1], "cache", c.err # NoErr, TRUE,
                                 shortCode \in gone, EmptyBag)

Redirect(p, C) ==
    /\ pc[p] = "idle"
    /\ LowestFree(p)
    /\ nreq < MaxReqs
    /\ nreq' = nreq + 1
    /\ \E shortCode \in C : ResolveStart(p, shortCode)

\* A mutant of ResolveDB: the click is counted before the lookup is examined
ResolveDBCountsFirst(p) ==
    /\ pc[p] = "db"
    /\ UNCHANGED <<urls, api_keys, hits, job, redis, now, nextID, gone, swept, nreq>>
    /\ \E up \in BOOLEAN :
          LET got == RepoGetByShortCode(urls, req[p].shortCode, up)
              after == req[p].afterDelete /\ req[p].shortCode \in gone
          IN  IF Is(got.err, ErrNotFound)
              THEN /\ BagCardinality(tasks) < MaxTasks
                   /\ tasks' = tasks (+) One(ClickTask(req[p].shortCode))
                   /\ UNCHANGED served
                   /\ Return(p, ResolveEvent(req[p].shortCode, New(ErrURLNotFound), Nil,
                                             "store", req[p].cacheErr, up, after))
              ELSE IF got.err # NoErr
              THEN /\ UNCHANGED <<tasks, served>>
                   /\ Return(p, ResolveEvent(req[p].shortCode,
                                  Wrap("failed to resolve URL", got.err), Nil,
                                  "store", req[p].cacheErr, up, after))
              ELSE ResolveFinish(p, req[p].shortCode, got.url[1], "store",
                                 req[p].cacheErr, up, after, One(CacheTask(got.url[1])))

\* A mutant of ResolveDB: a code the store does not hold is cached as an
\* empty record
ResolveDBCachesMiss(p) ==
    /\ pc[p] = "db"
    /\ UNCHANGED <<urls, api_keys, hits, job, redis, now, nextID, gone, swept, nreq>>
    /\ \E up \in BOOLEAN :
          LET got == RepoGetByShortCode(urls, req[p].shortCode, up)
              after == req[p].afterDelete /\ req[p].shortCode \in gone
          IN  IF Is(got.err, ErrNotFound)
              THEN /\ BagCardinality(tasks) < MaxTasks
                   /\ tasks' = tasks (+) One(CacheTask(NewURL(req[p].shortCode, <<>>, Nil)))
                   /\ UNCHANGED served
                   /\ Return(p, ResolveEvent(req[p].shortCode, New(ErrURLNotFound), Nil,
                                             "store", req[p].cacheErr, up, after))
              ELSE IF got.err # NoErr
              THEN /\ UNCHANGED <<tasks, served>>
                   /\ Return(p, ResolveEvent(req[p].shortCode,
                                  Wrap("failed to resolve URL", got.err), Nil,
                                  "store", req[p].cacheErr, up, after))
              ELSE ResolveFinish(p, req[p].shortCode, got.url[1], "store",
                                 req[p].cacheErr, up, after, One(CacheTask(got.url[1])))

\* step 2, the store read after a miss, and the rest of Resolve
ResolveDB(p) ==
    /\ pc[p] = "db"
    /\ UNCHANGED <<urls, api_keys, hits, job, redis, now, nextID, gone, swept, nreq>>
    /\ \E up \in BOOLEAN :
          LET got == RepoGetByShortCode(urls, req[p].shortCode, up)
              after == req[p].afterDelete /\ req[p].shortCode \in gone
          IN  IF Is(got.err, ErrNotFound)
              THEN /\ UNCHANGED <<tasks, served>>
                   /\ Return(p, ResolveEvent(req[p].shortCode, New(ErrURLNotFound), Nil,
                                             "store", req[p].cacheErr, up, after))
              ELSE IF got.err # NoErr
              THEN /\ UNCHANGED <<tasks, served>>
                   /\ Return(p, ResolveEvent(req[p].shortCode,
                                  Wrap("failed to resolve URL", got.err), Nil,
                                  "store", req[p].cacheErr, up, after))
              ELSE ResolveFinish(p, req[p].shortCode, got.url[1], "store",
                                 req[p].cacheErr, up, after, One(CacheTask(got.url[1])))

-----------------------------------------------------------------------------
(* URLService.GetStats, called by URLHandler.GetStats *)

StatsEvent(shortCode, err, url, storeUp) ==
    [kind |-> "GetStats", shortCode |-> shortCode, err |-> err,
     status |-> StatusOf(err, 200), body |-> BodyOf(err), stats |-> url,
     storeDown |-> ~storeUp]

\* A mutant of GetStatsCall: the cache is asked first, as Resolve does
GetStatsCallCached(p, shortCode) ==
    /\ UNCHANGED <<urls, api_keys, hits, job, served, redis, tasks, now, nextID, gone, swept>>
    /\ \E up \in BOOLEAN :
          LET c == getFromCache(redis, shortCode, up)
              got == IF c.url # Nil THEN [url |-> c.url, err |-> NoErr]
                     ELSE RepoGetByShortCode(urls, shortCode, up)
          IN  IF Is(got.err, ErrNotFound)
              THEN Return(p, StatsEvent(shortCode, New(ErrURLNotFound), Nil, up))
              ELSE IF got.err # NoErr
              THEN Return(p, StatsEvent(shortCode, Wrap("failed to get stats", got.err),
                                        Nil, up))
              ELSE Return(p, StatsEvent(shortCode, NoErr, got.url, up))

GetStatsCall(p, shortCode) ==
    /\ UNCHANGED <<urls, api_keys, hits, job, served, redis, tasks, now, nextID, gone, swept>>
    /\ \E up \in BOOLEAN :
          LET got == RepoGetByShortCode(urls, shortCode, up)
          IN  IF Is(got.err, ErrNotFound)
              THEN Return(p, StatsEvent(shortCode, New(ErrURLNotFound), Nil, up))
              ELSE IF got.err # NoErr
              THEN Return(p, StatsEvent(shortCode, Wrap("failed to get stats", got.err),
                                        Nil, up))
              ELSE Return(p, StatsEvent(shortCode, NoErr, got.url, up))

GetStats(p, C) ==
    /\ pc[p] = "idle"
    /\ LowestFree(p)
    /\ nreq < MaxReqs
    /\ nreq' = nreq + 1
    /\ \E shortCode \in C : GetStatsCall(p, shortCode)

-----------------------------------------------------------------------------
(* URLService.Delete, called by URLHandler.Delete *)

DeleteEvent(shortCode, err, storeUp, cacheUp) ==
    [kind |-> "Delete", shortCode |-> shortCode, err |-> err,
     status |-> StatusOf(err, 204), body |-> BodyOf(err), storeDown |-> ~storeUp,
     cacheDown |-> ~cacheUp]

\* the delete from the store
DeleteStart(p, shortCode) ==
    /\ UNCHANGED <<api_keys, hits, job, served, redis, tasks, now, nextID, gone, swept>>
    /\ \E up \in BOOLEAN :
          LET del == RepoDelete(urls, shortCode, up)
          IN  IF Is(del.err, ErrNotFound)
              THEN /\ UNCHANGED urls
                   /\ Return(p, DeleteEvent(shortCode, New(ErrURLNotFound), up, TRUE))
              ELSE IF del.err # NoErr
              THEN /\ UNCHANGED urls
                   /\ Return(p, DeleteEvent(shortCode, Wrap("failed to delete URL", del.err),
                                            up, TRUE))
              ELSE /\ urls' = del.rows
                   /\ Goto(p, "invalidate", [op |-> "Delete", shortCode |-> shortCode])

Delete(p, C) ==
    /\ pc[p] = "idle"
    /\ LowestFree(p)
    /\ nreq < MaxReqs
    /\ nreq' = nreq + 1
    /\ \E shortCode \in C : DeleteStart(p, shortCode)

\* the cache invalidation, whose error is ignored
DeleteInvalidate(p) ==
    /\ pc[p] = "invalidate"
    /\ UNCHANGED <<urls, api_keys, hits, job, served, swept, tasks, now, nextID, nreq>>
    /\ \E up \in BOOLEAN :
          /\ redis' = RedisDelete(redis, CacheKey(req[p].shortCode), up).redis
          /\ gone' = IF up /\ RowsOf(urls, req[p].shortCode) = {}
                     THEN gone \cup {req[p].shortCode} ELSE gone
          /\ Return(p, DeleteEvent(req[p].shortCode, NoErr, TRUE, up))

-----------------------------------------------------------------------------
(* The middleware chain: strings of the request *)

Bearer == <<"B","e","a","r","e","r"," ">>

\* strings.TrimPrefix
TrimPrefix(s, prefix) ==
    IF HasPrefix(s, prefix) THEN SubSeq(s, Len(prefix) + 1, Len(s)) ELSE s

\* strings.Split at the one-character separator sep
RECURSIVE Split(_, _)
Split(s, sep) ==
    IF \A i \in 1..Len(s) : s[i] # sep THEN <<s>>
    ELSE LET i == CHOOSE j \in 1..Len(s) :
                     s[j] = sep /\ \A k \in 1..(j - 1) : s[k] # sep
         IN  <<SubSeq(s, 1, i - 1)>> \o Split(SubSeq(s, i + 1, Len(s)), sep)

\* strings.TrimSpace
RECURSIVE TrimSpace(_)
TrimSpace(s) ==
    IF s = <<>> THEN s
    ELSE IF Head(s) = " " THEN TrimSpace(Tail(s))
    ELSE IF s[Len(s)] = " " THEN TrimSpace(SubSeq(s, 1, Len(s) - 1))
    ELSE s

\* uuid.UUID.String, for the identifiers the model uses
UUIDString(id) == <<"u", "u", "i", "d", "-", Digits[id + 1]>>

\* hashAPIKey: SHA-256 in hex, taken to be free of collisions
hashAPIKey(key) == <<"sha256", key>>

\* time.Time.Truncate
Truncate(t, d) == t - (t % d)

max(a, b) == IF a > b THEN a ELSE b

ErrMissingAPIKey == "API key is required"
ErrInvalidAPIKey == "API key is invalid"

-----------------------------------------------------------------------------
(* middleware.APIKeyAuth *)

LastUsedTask(id) == [kind |-> "UpdateLastUsed", id |-> id]

\* A mutant of extractKey: the query parameter is read as a last resort
extractKeyOrQuery(c) ==
    IF c.header.XAPIKey # <<>> THEN c.header.XAPIKey
    ELSE IF HasPrefix(c.header.Authorization, Bearer)
    THEN TrimPrefix(c.header.Authorization, Bearer)
    ELSE c.query.api_key

\* APIKeyAuth.extractKey of the request c
extractKey(c) ==
    IF c.header.XAPIKey # <<>> THEN c.header.XAPIKey
    ELSE IF HasPrefix(c.header.Authorization, Bearer)
    THEN TrimPrefix(c.header.Authorization, Bearer)
    ELSE <<>>

\* APIKeyService.ValidateKey, with the goroutine it spawns
ValidateKey(keys, rawKey, up) ==
    LET got == GetByKeyHash(keys, hashAPIKey(rawKey), up)
    IN  IF Is(got.err, ErrNotFound)
        THEN [key |-> Nil, err |-> NoErr, spawned |-> EmptyBag]
        ELSE IF got.err # NoErr
        THEN [key |-> Nil, err |-> Wrap("failed to validate key", got.err),
              spawned |-> EmptyBag]
        ELSE [key |-> got.key, err |-> NoErr,
              spawned |-> One(LastUsedTask(got.key[1].ID))]

\* APIKeyAuth.extractAndValidate
extractAndValidate(keys, c, up) ==
    LET rawKey == extractKey(c)
        v == ValidateKey(keys, rawKey, up)
    IN  IF rawKey = <<>>
        THEN [key |-> Nil, err |-> New(ErrMissingAPIKey), spawned |-> EmptyBag]
        ELSE IF v.err # NoErr THEN v
        ELSE IF v.key = Nil
        THEN [key |-> Nil, err |-> New(ErrInvalidAPIKey), spawned |-> EmptyBag]
        ELSE v

\* a RequireKey that lets the request through whatever extractAndValidate says
RequireKeyLenient(keys, c, up) ==
    LET v == extractAndValidate(keys, c, up)
    IN  [abort |-> FALSE, status |-> 0, key |-> v.key, spawned |-> v.spawned]

\* APIKeyAuth.RequireKey: abort with 401, or attach the key and go on
RequireKey(keys, c, up) ==
    LET v == extractAndValidate(keys, c, up)
    IN  IF v.err # NoErr
        THEN [abort |-> TRUE, status |-> 401, key |-> Nil, spawned |-> EmptyBag]
        ELSE [abort |-> FALSE, status |-> 0, key |-> v.key, spawned |-> v.spawned]

\* A mutant of OptionalKey: a request without a valid key is answered 401
OptionalKeyStrict(keys, c, up) ==
    LET v == extractAndValidate(keys, c, up)
    IN  IF v.key = Nil
        THEN [abort |-> TRUE, status |-> 401, key |-> Nil, spawned |-> EmptyBag]
        ELSE [abort |-> FALSE, status |-> 0, key |-> v.key, spawned |-> v.spawned]

\* APIKeyAuth.OptionalKey: attach the key when there is one, and go on
OptionalKey(keys, c, up) ==
    LET v == extractAndValidate(keys, c, up)
    IN  [abort |-> FALSE, status |-> 0, key |-> v.key, spawned |-> v.spawned]

-----------------------------------------------------------------------------
(* middleware.RateLimiter *)

\* RateLimiter.getClientIdentifier
getClientIdentifier(c) ==
    IF c.header.XForwardedFor # <<>>
    THEN TrimSpace(Split(c.header.XForwardedFor, ",")[1])
    ELSE IF c.header.XRealIP # <<>> THEN c.header.XRealIP
    ELSE c.ClientIP

\* step 1 of Middleware: the budget and the identity the request is counted under
LimitOf(c) ==
    IF c.keys.api_key # Nil
    THEN [limit |-> c.keys.api_key[1].RateLimit,
          identifier |-> UUIDString(c.keys.api_key[1].ID)]
    ELSE [limit |-> defaultLimit, identifier |-> getClientIdentifier(c)]

NoHeader == [h \in {} |-> 0]

\* step 4 of Middleware
RateLimitHeader(limit, window, count) ==
    [XRateLimitLimit |-> limit,
     XRateLimitRemaining |-> max(0, limit - count),
     XRateLimitReset |-> window + windowSize]

\* A mutant of TooManyRequests: the remaining budget is not floored at 0
TooManyRequestsNegative(limit, window, count, t) ==
    [next |-> FALSE, status |-> 429,
     header |-> [XRateLimitLimit |-> limit,
                 XRateLimitRemaining |-> limit - count,
                 XRateLimitReset |-> window + windowSize,
                 RetryAfter |-> windowSize - (t - window)]]

\* step 5 of Middleware, the rejection, at instant t
TooManyRequests(limit, window, count, t) ==
    [next |-> FALSE, status |-> 429,
     header |-> [XRateLimitLimit |-> limit,
                 XRateLimitRemaining |-> max(0, limit - count),
                 XRateLimitReset |-> window + windowSize,
                 RetryAfter |-> windowSize - (t - window)]]

\* a Middleware that rejects the request that reaches the limit
MiddlewareRejectsAtLimit(limit, window, count, err, t) ==
    IF err # NoErr THEN [next |-> TRUE, status |-> 0, header |-> NoHeader]
    ELSE IF count >= limit THEN TooManyRequests(limit, window, count, t)
    ELSE [next |-> TRUE, status |-> 0, header |-> RateLimitHeader(limit, window, count)]

\* a Middleware that rejects when Redis does not answer
MiddlewareFailClosed(limit, window, count, err, t) ==
    IF err # NoErr \/ count > limit THEN TooManyRequests(limit, window, count, t)
    ELSE [next |-> TRUE, status |-> 0, header |-> RateLimitHeader(limit, window, count)]

\* RateLimiter.Middleware from the result (count, err) of IncrementRateLimit on:
\* the headers, and whether the chain goes on
Middleware(limit, window, count, err, t) ==
    IF err # NoErr THEN [next |-> TRUE, status |-> 0, header |-> NoHeader]
    ELSE IF count > limit THEN TooManyRequests(limit, window, count, t)
    ELSE [next |-> TRUE, status |-> 0, header |-> RateLimitHeader(limit, window, count)]

\* A mutant of AfterRateLimit: the rate limiter hands every route to its handler
AfterRateLimitSkipsAuth(route) == "handler"

\* the handler that follows the rate limiter on the route
AfterRateLimit(route) == IF route = "redirect" THEN "handler" ELSE "auth"

RateLimitEvent(p, l, d) ==
    [kind |-> "RateLimit", slot |-> p, request |-> l.c, identifier |-> l.identifier,
     limit |-> l.limit, window |-> l.window, count |-> l.count, nth |-> l.nth,
     incrErr |-> l.err # NoErr, next |-> d.next, status |-> d.status,
     header |-> d.header]

\* the rest of Middleware once IncrementRateLimit has returned, with locals l
MiddlewareFinish(p, l) ==
    LET d == Middleware(l.limit, l.window, l.count, l.err, now)
    IN  IF d.next
        THEN /\ pc' = [pc EXCEPT ![p] = AfterRateLimit(l.c.route)]
             /\ req' = [req EXCEPT ![p] = [op |-> "http", c |-> l.c]]
             /\ ev' = RateLimitEvent(p, l, d)
        ELSE Return(p, RateLimitEvent(p, l, d))

\* A mutant of MiddlewareStartWhen: EXPIRE follows every INCR that succeeded
MiddlewareStartWhenExpiresAlways(p, c, U) ==
    /\ UNCHANGED <<urls, api_keys, served, job, tasks, now, nextID, gone, swept>>
    /\ \E up \in U :
          LET who == LimitOf(c)
              window == Truncate(now, windowSize)
              key == RateLimitKey(who.identifier, window)
              inc == RedisIncr(redis, key, up)
              h == <<who.identifier, window>>
              old == IF h \in DOMAIN hits THEN hits[h] ELSE [n |-> 0, allowed |-> 0]
              n == old.n + 1
              l == [op |-> "http", c |-> c, limit |-> who.limit,
                    identifier |-> who.identifier, window |-> window, key |-> key,
                    count |-> inc.count, nth |-> IF inc.err = NoErr THEN n ELSE 0,
                    err |-> IF inc.err = NoErr THEN NoErr
                            ELSE Wrap("rate limit incr failed", inc.err)]
          IN  /\ redis' = inc.redis
              /\ hits' = IF inc.err # NoErr THEN hits
                          ELSE Put(hits, h,
                                   [n |-> n,
                                    allowed |-> IF Middleware(l.limit, l.window, l.count,
                                                              l.err, now).next
                                                THEN old.allowed + 1 ELSE old.allowed])
              /\ IF inc.err = NoErr
                 THEN Goto(p, "expire", l)
                 ELSE MiddlewareFinish(p, l)

\* Middleware up to the INCR of IncrementRateLimit, for the request c, Redis
\* answering the INCR or not as U allows
MiddlewareStartWhen(p, c, U) ==
    /\ UNCHANGED <<urls, api_keys, served, job, tasks, now, nextID, gone, swept>>
    /\ \E up \in U :
          LET who == LimitOf(c)
              window == Truncate(now, windowSize)
              key == RateLimitKey(who.identifier, window)
              inc == RedisIncr(redis, key, up)
              h == <<who.identifier, window>>
              old == IF h \in DOMAIN hits THEN hits[h] ELSE [n |-> 0, allowed |-> 0]
              n == old.n + 1
              l == [op |-> "http", c |-> c, limit |-> who.limit,
                    identifier |-> who.identifier, window |-> window, key |-> key,
                    count |-> inc.count, nth |-> IF inc.err = NoErr THEN n ELSE 0,
                    err |-> IF inc.err = NoErr THEN NoErr
                            ELSE Wrap("rate limit incr failed", inc.err)]
          IN  /\ redis' = inc.redis
              /\ hits' = IF inc.err # NoErr THEN hits
                          ELSE Put(hits, h,
                                   [n |-> n,
                                    allowed |-> IF Middleware(l.limit, l.window, l.count,
                                                              l.err, now).next
                                                THEN old.allowed + 1 ELSE old.allowed])
              /\ IF inc.err = NoErr /\ inc.count = 1
                 THEN Goto(p, "expire", l)
                 ELSE MiddlewareFinish(p, l)

MiddlewareStart(p, c) == MiddlewareStartWhen(p, c, BOOLEAN)

\* a request arrives on one of the routes of main
ServeWhen(p, R, U) ==
    /\ pc[p] = "idle"
    /\ LowestFree(p)
    /\ nreq < MaxReqs
    /\ nreq' = nreq + 1
    /\ \E c \in R : MiddlewareStartWhen(p, c, U)

Serve(p, R) == ServeWhen(p, R, BOOLEAN)

\* the EXPIRE of IncrementRateLimit, whose error is ignored, and the rest of
\* Middleware
RateLimitExpire(p) ==
    /\ pc[p] = "expire"
    /\ UNCHANGED <<urls, api_keys, hits, job, served, tasks, now, nextID, gone, swept, nreq>>
    /\ \E up \in BOOLEAN :
          /\ redis' = RedisExpire(redis, req[p].key, windowSize, now, up).redis
          /\ MiddlewareFinish(p, req[p])

AuthEvent(p, c, a, up) ==
    [kind |-> "Auth", slot |-> p, request |-> c, abort |-> a.abort,
     status |-> a.status, key |-> a.key,
     storeDown |-> extractKey(c) # <<>> /\ ~up]

\* the key middleware of a route group, in the mode the group uses
AuthenticateAs(p, mode) ==
    /\ pc[p] = "auth"
    /\ UNCHANGED <<urls, api_keys, hits, job, served, redis, now, nextID, gone, swept, nreq>>
    /\ \E up \in BOOLEAN :
          LET c == req[p].c
              a == IF mode = "optional" THEN OptionalKey(api_keys, c, up)
                   ELSE RequireKey(api_keys, c, up)
          IN  IF a.abort
              THEN /\ UNCHANGED tasks
                   /\ Return(p, AuthEvent(p, c, a, up))
              ELSE /\ BagCardinality(tasks (+) a.spawned) <= MaxTasks
                   /\ tasks' = tasks (+) a.spawned
                   /\ pc' = [pc EXCEPT ![p] = "handler"]
                   /\ req' = [req EXCEPT ![p] =
                                [op |-> "http",
                                 c |-> [c EXCEPT !.keys = [api_key |-> a.key]]]]
                   /\ ev' = AuthEvent(p, c, a, up)

\* api.Use(apiKeyAuth.RequireKey())
Authenticate(p) == AuthenticateAs(p, "require")

\* the handler of the route, up to the first operation of the service on the
\* store or the cache
Handle(p) ==
    /\ pc[p] = "handler"
    /\ UNCHANGED <<nreq>>
    /\ LET c == req[p].c
       IN  CASE c.route = "redirect" -> ResolveStart(p, c.shortCode)
             [] c.route = "shorten" -> CreateStart(p, c.body[1])
             [] c.route = "stats" -> GetStatsCall(p, c.shortCode)
             [] c.route = "delete" -> DeleteStart(p, c.shortCode)

-----------------------------------------------------------------------------
(* Goroutines, the clock and the cleanup job *)

\* go func() { _ = s.cacheURL(cacheCtx, url) }()
RunCacheURL ==
    /\ \E t \in BagToSet(tasks), up \in BOOLEAN :
          /\ t.kind = "cacheURL"
          /\ redis' = cacheURL(redis, t.url, now, up).redis
          /\ tasks' = tasks (-) One(t)
    /\ ev' = NoEv
    /\ UNCHANGED <<urls, api_keys, hits, job, served, now, nextID, pc, req, nreq, gone, swept>>

\* go func() { _ = s.repo.IncrementClicks(incCtx, shortCode) }(), the store
\* answering or not as U allows
RunIncrementClicksWhen(U) ==
    /\ \E t \in BagToSet(tasks), up \in U :
          /\ t.kind = "IncrementClicks"
          /\ urls' = RepoIncrementClicks(urls, t.shortCode, up).rows
          /\ tasks' = tasks (-) One(t)
    /\ ev' = NoEv
    /\ UNCHANGED <<api_keys, hits, job, served, redis, now, nextID, pc, req, nreq, gone, swept>>

RunIncrementClicks == RunIncrementClicksWhen(BOOLEAN)

\* go func() { _ = s.repo.UpdateLastUsed(updateCtx, key.ID) }()
RunUpdateLastUsed ==
    /\ \E t \in BagToSet(tasks), up \in BOOLEAN :
          /\ t.kind = "UpdateLastUsed"
          /\ api_keys' = UpdateLastUsed(api_keys, t.id, now, up)
          /\ tasks' = tasks (-) One(t)
    /\ ev' = NoEv
    /\ UNCHANGED <<urls, hits, job, served, redis, now, nextID, pc, req, nreq, gone, swept>>

\* d seconds pass, up to the horizon; Redis forgets the keys that expire
Tick(d, horizon) ==
    /\ now + d <= horizon
    /\ now' = now + d
    /\ redis' = PurgeExpired(redis, now + d)
    /\ ev' = NoEv
    /\ UNCHANGED <<urls, api_keys, hits, job, served, tasks, nextID, pc, req, nreq, gone, swept>>

\* what runCleanupJob learns from DeleteExpired and logs
SweepEvent(count, err) == [kind |-> "Sweep", count |-> count, err |-> err]

\* case <-ticker.C of runCleanupJob: DeleteExpired and the log line, the store
\* answering or not as U allows
DeleteExpiredWhen(U) ==
    \E up \in U :
       LET res == RepoDeleteExpired(urls, now, up)
       IN  /\ urls' = res.rows
           /\ swept' = swept \cup {r.ShortCode : r \in urls \ res.rows}
           /\ ev' = SweepEvent(res.count, res.err)

\* the ticker of runCleanupJob sends on its channel, which holds one tick; the
\* interval is not measured
TickerFires ==
    /\ ~job.stopped
    /\ ~job.tick
    /\ job' = [job EXCEPT !.tick = TRUE]
    /\ ev' = NoEv
    /\ UNCHANGED <<urls, api_keys, hits, served, redis, tasks, now, nextID, pc, req, nreq,
                   gone, swept>>

\* A mutant of JobSweep: the sweep runs on context.Background()
JobSweepDetached ==
    /\ ~job.stopped
    /\ job.tick
    /\ job' = [job EXCEPT !.tick = FALSE]
    /\ DeleteExpiredWhen(BOOLEAN)
    /\ UNCHANGED <<api_keys, hits, served, redis, tasks, now, nextID, pc, req, nreq, gone>>

\* the select of runCleanupJob takes the tick: DeleteExpired runs under a
\* context derived from the job's, and fails at once when that is cancelled
JobSweep ==
    /\ ~job.stopped
    /\ job.tick
    /\ job' = [job EXCEPT !.tick = FALSE]
    /\ DeleteExpiredWhen(IF job.cancelled THEN {FALSE} ELSE BOOLEAN)
    /\ UNCHANGED <<api_keys, hits, served, redis, tasks, now, nextID, pc, req, nreq, gone>>

\* the select of runCleanupJob takes ctx.Done(): the job logs and returns, and
\* the deferred ticker.Stop() runs
JobStop ==
    /\ ~job.stopped
    /\ job.cancelled
    /\ job' = [job EXCEPT !.stopped = TRUE]
    /\ ev' = [kind |-> "CleanupStopped"]
    /\ UNCHANGED <<urls, api_keys, hits, served, redis, tasks, now, nextID, pc, req, nreq,
                   gone, swept>>

\* bgCancel() at the end of main, once srv.Shutdown has returned
Shutdown ==
    /\ ~job.cancelled
    /\ \A p \in Procs : pc[p] = "idle"
    /\ job' = [job EXCEPT !.cancelled = TRUE]
    /\ ev' = NoEv
    /\ UNCHANGED <<urls, api_keys, hits, served, redis, tasks, now, nextID, pc, req, nreq,
                   gone, swept>>

\* a tick of runCleanupJob while it runs
Sweep ==
    /\ DeleteExpiredWhen(BOOLEAN)
    /\ UNCHANGED <<api_keys, hits, job, served, redis, tasks, now, nextID, pc, req, nreq, gone>>

-----------------------------------------------------------------------------

\* the secrets clients present: of an active key, of a deactivated key, of no key
SecretActive == <<"k", "1">>
SecretRevoked == <<"k", "2">>
SecretUnknown == <<"k", "3">>

\* table api_keys: rows of models.APIKey
InitKeys ==
    {[ID |-> 1, KeyHash |-> hashAPIKey(SecretActive), Name |-> "active",
      RateLimit |-> defaultLimit + 1, IsActive |-> TRUE, LastUsedAt |-> Nil],
     [ID |-> 2, KeyHash |-> hashAPIKey(SecretRevoked), Name |-> "revoked",
      RateLimit |-> defaultLimit + 1, IsActive |-> FALSE, LastUsedAt |-> Nil]}

Init ==
    /\ urls = {}
    /\ api_keys = InitKeys
    /\ redis = [k \in {} |-> 0]
    /\ tasks = EmptyBag
    /\ now = 1
    /\ nextID = 1
    /\ pc = [p \in Procs |-> "idle"]
    /\ req = [p \in Procs |-> Idle]
    /\ nreq = 0
    /\ gone = {}
    /\ hits = [k \in {} |-> 0]
    /\ served = [c \in {} |-> 0]
    /\ swept = {}
    /\ job = [cancelled |-> FALSE, tick |-> FALSE, stopped |-> FALSE]
    /\ ev = NoEv

\* the goroutines, the clock and the cleanup job
Background ==
    \/ RunCacheURL
    \/ RunIncrementClicks
    \/ Tick(1, MaxTime)
    \/ Sweep

\* Clients shorten under custom aliases, with and without expiration, and
\* redirect, query and delete the aliased code.
Next ==
    \/ \E p \in Procs : Shorten(p, URLInputs, AliasInputs, ExpiresInInputs)
    \/ \E p \in Procs : CreateInsert(p)
    \/ \E p \in Procs : Redirect(p, AliasCodes)
    \/ \E p \in Procs : ResolveDB(p)
    \/ \E p \in Procs : GetStats(p, AliasCodes)
    \/ \E p \in Procs : Delete(p, AliasCodes)
    \/ \E p \in Procs : DeleteInvalidate(p)
    \/ Background

Spec == Init /\ [][Next]_vars

\* Clients shorten one URL without expiration, under the alias or under a
\* generated code, and delete codes; nothing resolves and nothing expires.
NextIssue ==
    \/ \E p \in Procs : Shorten(p, {URLa}, AliasInputs \cup {NoAlias}, {0})
    \/ \E p \in Procs : CreateGenerate(p)
    \/ \E p \in Procs : CreateExists(p)
    \/ \E p \in Procs : CreateInsert(p)
    \/ \E p \in Procs : Delete(p, AliasCodes \cup GeneratedCodes)
    \/ \E p \in Procs : DeleteInvalidate(p)
    \/ RunCacheURL

SpecIssue == Init /\ [][NextIssue]_vars

\* the requests of the HTTP workload
Direct == [ClientIP |-> <<"7">>, XForwardedFor |-> <<>>, XRealIP |-> <<>>]
Proxied == [ClientIP |-> <<"7">>, XForwardedFor |-> <<" ", "9", ",", "7">>,
            XRealIP |-> <<"8">>]

NoKey == [XAPIKey |-> <<>>, Authorization |-> <<>>, Query |-> <<>>]
ActiveKey == [XAPIKey |-> SecretActive, Authorization |-> <<>>, Query |-> <<>>]
RevokedKey == [XAPIKey |-> <<>>, Authorization |-> Bearer \o SecretRevoked, Query |-> <<>>]
UnknownKey == [XAPIKey |-> SecretUnknown, Authorization |-> <<>>, Query |-> <<>>]

Request(route, o, k) ==
    [route |-> route,
     shortCode |-> IF route = "shorten" THEN <<>> ELSE <<"a","b","c">>,
     body |-> IF route = "shorten"
              THEN <<[URL |-> URLa, CustomAlias |-> <<"A","b","c">>, ExpiresIn |-> 0]>>
              ELSE Nil,
     ClientIP |-> o.ClientIP,
     header |-> [XForwardedFor |-> o.XForwardedFor, XRealIP |-> o.XRealIP,
                 XAPIKey |-> k.XAPIKey, Authorization |-> k.Authorization],
     query |-> [api_key |-> k.Query],
     keys |-> [api_key |-> Nil]]

LimitRequests ==
    {Request("redirect", Direct, NoKey), Request("redirect", Proxied, NoKey),
     Request("stats", Direct, ActiveKey)}

\* Clients send requests through the router, from two addresses and with a
\* key, while no URL is stored: GET /:shortCode behind the rate limiter,
\* GET /api/stats/:shortCode behind the rate limiter and RequireKey.  The
\* clock moves from window to window.
NextLimit ==
    \/ \E p \in Procs : Serve(p, LimitRequests)
    \/ \E p \in Procs : RateLimitExpire(p)
    \/ \E p \in Procs : Authenticate(p)
    \/ \E p \in Procs : Handle(p)
    \/ \E p \in Procs : ResolveDB(p)
    \/ RunUpdateLastUsed
    \/ Tick(windowSize, MaxWindows * windowSize)

SpecLimit == Init /\ [][NextLimit]_vars

AuthRequests ==
    {Request("shorten", Direct, ActiveKey), Request("shorten", Direct, UnknownKey),
     Request("stats", Direct, NoKey),
     Request("delete", Direct, ActiveKey), Request("delete", Direct, RevokedKey)}

\* Clients send requests to the /api routes from one address, with and
\* without a valid key, inside one window.
NextAuth ==
    \/ \E p \in Procs : Serve(p, AuthRequests)
    \/ \E p \in Procs : RateLimitExpire(p)
    \/ \E p \in Procs : Authenticate(p)
    \/ \E p \in Procs : Handle(p)
    \/ \E p \in Procs : CreateInsert(p)
    \/ \E p \in Procs : DeleteInvalidate(p)
    \/ RunCacheURL
    \/ RunUpdateLastUsed

SpecAuth == Init /\ [][NextAuth]_vars

AsyncRequests ==
    {Request("shorten", Direct, ActiveKey), Request("redirect", Direct, NoKey)}

\* Clients with a valid key shorten one URL under the alias and anyone
\* redirects it, inside one window; every goroutine the requests spawn runs.
NextAsync ==
    \/ \E p \in Procs : Serve(p, AsyncRequests)
    \/ \E p \in Procs : RateLimitExpire(p)
    \/ \E p \in Procs : Authenticate(p)
    \/ \E p \in Procs : Handle(p)
    \/ \E p \in Procs : CreateInsert(p)
    \/ \E p \in Procs : ResolveDB(p)
    \/ RunCacheURL
    \/ RunIncrementClicks
    \/ RunUpdateLastUsed

SpecAsync == Init /\ [][NextAsync]_vars

\* Clients shorten under the alias, with and without expiration, and redirect
\* it; nothing is deleted or swept, and the store answers every click
\* increment.  Go schedules every goroutine, so a pending increment runs.
NextClicks ==
    \/ \E p \in Procs : Shorten(p, {URLa}, AliasInputs, ExpiresInInputs)
    \/ \E p \in Procs : CreateInsert(p)
    \/ \E p \in Procs : Redirect(p, AliasCodes)
    \/ \E p \in Procs : ResolveDB(p)
    \/ RunCacheURL
    \/ RunIncrementClicksWhen({TRUE})
    \/ Tick(1, MaxTime)

SpecClicks ==
    Init /\ [][NextClicks]_vars /\ WF_vars(RunIncrementClicksWhen({TRUE}))


\* Clients shorten URLs and aliases at the edges of the validation, one field
\* at the edge at a time.
NextInputs ==
    \/ \E p \in Procs : Shorten(p, URLBoundary, {<<"A","b","c">>}, {0})
    \/ \E p \in Procs : Shorten(p, {URLa}, AliasBoundary, {0})
    \/ \E p \in Procs : CreateInsert(p)
    \/ RunCacheURL

SpecInputs == Init /\ [][NextInputs]_vars

WindowRequests ==
    {Request("redirect", Direct, NoKey), Request("redirect", Proxied, NoKey)}

\* Clients send GET /:shortCode from two addresses while Redis answers every
\* INCR and no URL is stored; the clock moves from window to window.
NextWindows ==
    \/ \E p \in Procs : ServeWhen(p, WindowRequests, {TRUE})
    \/ \E p \in Procs : RateLimitExpire(p)
    \/ \E p \in Procs : Handle(p)
    \/ \E p \in Procs : ResolveDB(p)
    \/ Tick(windowSize, MaxWindows * windowSize)

SpecWindows == Init /\ [][NextWindows]_vars

OptionalRequests ==
    {Request("stats", Direct, k) : k \in {NoKey, ActiveKey, RevokedKey, UnknownKey}}

\* Clients send GET /api/stats/:shortCode with every kind of credential to a
\* group that uses OptionalKey in place of RequireKey.
NextOptional ==
    \/ \E p \in Procs : Serve(p, OptionalRequests)
    \/ \E p \in Procs : RateLimitExpire(p)
    \/ \E p \in Procs : AuthenticateAs(p, "optional")
    \/ \E p \in Procs : Handle(p)
    \/ RunUpdateLastUsed

SpecOptional == Init /\ [][NextOptional]_vars

\* the secret of the active key in ?api_key= only, in a Bearer header, in an
\* Authorization header without the prefix, and beside the revoked secret
KeyRequests ==
    {Request("stats", Direct, k) :
        k \in {[XAPIKey |-> <<>>, Authorization |-> <<>>, Query |-> SecretActive],
               [XAPIKey |-> <<>>, Authorization |-> Bearer \o SecretActive, Query |-> <<>>],
               [XAPIKey |-> <<>>, Authorization |-> SecretActive, Query |-> <<>>],
               [XAPIKey |-> SecretRevoked, Authorization |-> Bearer \o SecretActive,
                Query |-> SecretActive],
               [XAPIKey |-> SecretActive, Authorization |-> Bearer \o SecretRevoked,
                Query |-> <<>>]}}

\* Clients send GET /api/stats/:shortCode with the secret in every place a
\* request can carry it, to the group as main wires it.
NextKeys ==
    \/ \E p \in Procs : Serve(p, KeyRequests)
    \/ \E p \in Procs : RateLimitExpire(p)
    \/ \E p \in Procs : Authenticate(p)
    \/ \E p \in Procs : Handle(p)
    \/ RunUpdateLastUsed

SpecKeys == Init /\ [][NextKeys]_vars

\* Clients shorten under the alias with an expiration while the cleanup job
\* runs; main shuts down at some point, after which no request is accepted.
NextCleanup ==
    \/ ~job.cancelled /\ \E p \in Procs : Shorten(p, {URLa}, AliasInputs, {1})
    \/ \E p \in Procs : CreateInsert(p)
    \/ RunCacheURL
    \/ Tick(1, MaxTime)
    \/ TickerFires
    \/ JobSweep
    \/ Shutdown
    \/ JobStop

SpecCleanup == Init /\ [][NextCleanup]_vars /\ WF_vars(JobStop)

-----------------------------------------------------------------------------
(* Claims *)

\* C1: the store never holds two records with one short code; a Create whose
\* insert loses the race against a concurrent issuer of the same code (both
\* passed the availability check) fails with CodeTaken, as does every Create
\* of a well-formed code that fails while the store answers; the record of a
\* Create that succeeded is the only one under its code.
C1_OneWinnerPerCode ==
    /\ \A r1, r2 \in urls : r1.ShortCode = r2.ShortCode => r1 = r2
    /\ ev.kind = "Create" /\ ev.lost => Is(ev.err, ErrCodeTaken) /\ ev.status = 409
    /\ ev.kind = "Create" /\ ev.err # NoErr /\ ~ev.storeDown
          /\ ev.shortCode # <<>> /\ ev.status # 400
       => Is(ev.err, ErrCodeTaken) /\ ev.status = 409
    /\ ev.kind = "Create" /\ ev.err = NoErr
       => RowsOf(urls, ev.shortCode) = {ev.url[1]}

\* a Create passed the availability check and then lost the insert to another
C1_RaceLost == ev.kind = "Create" /\ ev.lost /\ ev.status = 409

\* C2: whenever Resolve obtained a record, from the cache or from the store, it
\* returns Expired exactly if the record's expiration instant is in the past,
\* and the destination otherwise.
C2_ExpiredNeverServed ==
    ev.kind = "Resolve" /\ ev.record # Nil
    => LET u == ev.record[1]
           past == u.ExpiresAt # Nil /\ now > u.ExpiresAt[1]
       IN  /\ past => Is(ev.err, ErrURLExpired) /\ ev.status = 410 /\ ev.originalURL = Nil
           /\ ~past => ev.err = NoErr /\ ev.originalURL = <<u.OriginalURL>>

\* an expired record found in a cache entry that is still present
C2_ExpiredFromCache ==
    ev.kind = "Resolve" /\ ev.src = "cache" /\ Is(ev.err, ErrURLExpired)

\* C3 (as claimed): a Resolve that starts after Delete returned success, the
\* code not issued again, returns NotFound whenever the store answers.
C3_DeletedStaysNotFound ==
    ev.kind = "Resolve" /\ ev.afterDelete /\ ~ev.storeDown
    => Is(ev.err, ErrURLNotFound)

\* C4 (as claimed): the destination Resolve returns is the destination of the
\* record the store holds for the code at that moment.
C4_ResolveMatchesStore ==
    ev.kind = "Resolve" /\ ev.err = NoErr /\ RowsOf(urls, ev.shortCode) # {}
    => \E r \in RowsOf(urls, ev.shortCode) : <<r.OriginalURL>> = ev.originalURL

\* C5: a Resolve whose cache read failed goes to the store like one that
\* missed, and both answer what the store alone dictates (404 without a row,
\* 410 for a row past its expiration, the row's destination otherwise); the
\* failed cache read causes no error.
C5_CacheErrorIsMiss ==
    LET rows == RowsOf(urls, ev.shortCode)
        dictated == IF rows = {} THEN 404
                    ELSE IF \E r \in rows : r.ExpiresAt # Nil /\ now > r.ExpiresAt[1]
                    THEN 410
                    ELSE 302
    IN  /\ ev.kind = "Resolve" /\ ev.cacheErr => ev.src = "store"
        /\ ev.kind = "Resolve" /\ ev.src = "store" /\ ~ev.storeDown
           => /\ ev.status = dictated
              /\ ev.status = 302 =>
                    \E r \in rows : ev.originalURL = <<r.OriginalURL>>

\* a redirect served from the store after the cache read failed
C5_ServedDespiteCacheError ==
    ev.kind = "Resolve" /\ ev.cacheErr /\ ev.status = 302

C7_FailOpen ==
    ev.kind = "RateLimit" /\ ev.incrErr
    => /\ ev.next
       /\ ev.status # 429
       /\ pc[ev.slot] = (IF ev.request.route = "redirect" THEN "handler" ELSE "auth")
       /\ req[ev.slot].c = ev.request

\* the increment fails for an identity whose budget of the window is used up
C7_FailOpenOverBudget ==
    /\ ev.kind = "RateLimit" /\ ev.incrErr /\ ev.next
    /\ <<ev.identifier, ev.window>> \in DOMAIN hits
    /\ hits[<<ev.identifier, ev.window>>].n >= ev.limit

\* C8 (as claimed): a request on an /api route that carries the secret of an
\* active key is counted, when Redis answers, under that key's identifier with
\* that key's budget.
C8_LimitedUnderKey ==
    ev.kind = "RateLimit" /\ ~ev.incrErr /\ ev.request.route # "redirect"
    => \A k \in api_keys :
          k.IsActive /\ extractKey(ev.request) # <<>>
             /\ k.KeyHash = hashAPIKey(extractKey(ev.request))
          => ev.identifier = UUIDString(k.ID) /\ ev.limit = k.RateLimit

\* C9: the step in which RequireKey is done with a request that presents no
\* secret, a secret of no key or the secret of a deactivated key answers 401,
\* frees the slot and changes neither the store nor the cache nor the
\* goroutines; and a request that a step brings to a handler of the /api
\* routes presented the secret of an active key, which is attached to it.
C9_InvalidKeyRejected ==
    [][LET secrets(c) == {c.header.XAPIKey, TrimPrefix(c.header.Authorization, Bearer)}
                            \ {<<>>}
           valid(c) == \E k \in api_keys, x \in secrets(c) :
                          k.IsActive /\ k.KeyHash = hashAPIKey(x)
       IN  \A p \in Procs :
              /\ (pc[p] = "auth" /\ pc'[p] # "auth" /\ ~valid(req[p].c))
                 => /\ pc'[p] = "idle"
                    /\ ev'.kind = "Auth" /\ ev'.status = 401
                    /\ urls' = urls /\ redis' = redis /\ tasks' = tasks
              /\ (pc'[p] = "handler" /\ req'[p].c.route # "redirect")
                 => /\ req'[p].c.keys.api_key # Nil
                    /\ \E k \in api_keys, x \in secrets(req'[p].c) :
                          /\ k.IsActive /\ k.KeyHash = hashAPIKey(x)
                          /\ k.ID = req'[p].c.keys.api_key[1].ID]_vars

\* the secret of a deactivated key was answered 401
C9_RevokedKeyRejected ==
    /\ ev.kind = "Auth" /\ ev.status = 401
    /\ \E k \in api_keys :
          ~k.IsActive /\ k.KeyHash = hashAPIKey(TrimPrefix(ev.request.header.Authorization,
                                                           Bearer))

\* C10 (as claimed): an operation that found the store unavailable answers 500.
C10_StoreDownIsInternal ==
    ev.kind \in {"Auth", "Create", "Resolve", "GetStats", "Delete"} /\ ev.storeDown
    => ev.status = 500

\* C11: Create, Resolve and ValidateKey answer while the work they scheduled
\* is still pending (the cache write of Create and of a Resolve served from
\* the store, the click increment of Resolve, the last-used update of
\* ValidateKey), and the step in which such work runs, whether it succeeds or
\* fails, answers no caller and touches no request.
C11_ResultBeforeBackgroundWork ==
    [][/\ (ev'.kind = "Create" /\ ev'.err = NoErr)
          => BagIn(CacheTask(ev'.url[1]), tasks')
       /\ (ev'.kind = "Resolve" /\ ev'.err = NoErr)
          => /\ BagIn(ClickTask(ev'.shortCode), tasks')
             /\ ev'.src = "store" => BagIn(CacheTask(ev'.record[1]), tasks')
       /\ (ev'.kind = "Auth" /\ ~ev'.abort)
          => BagIn(LastUsedTask(ev'.key[1].ID), tasks')
       /\ BagCardinality(tasks') < BagCardinality(tasks)
          => ev' = NoEv /\ pc' = pc /\ req' = req /\ nreq' = nreq]_vars

\* the one request so far, a Create, was answered with success, and both the
\* cache write and the last-used update it left behind have failed
C11_BackgroundWorkFailed ==
    /\ nreq = 1 /\ tasks = EmptyBag /\ \A p \in Procs : pc[p] = "idle"
    /\ \E r \in urls : CacheKey(r.ShortCode) \notin DOMAIN redis
    /\ \A k \in api_keys : k.LastUsedAt = Nil

\* C12 (as claimed): while the store answers and holds an unexpired record for
\* the code, the record of the Create that succeeded last, Resolve returns
\* that record's destination.
C12_ResolveReturnsCreated ==
    ev.kind = "Resolve" /\ ~ev.storeDown
    => \A r \in RowsOf(urls, ev.shortCode) :
          ~(r.ExpiresAt # Nil /\ now > r.ExpiresAt[1])
          => ev.err = NoErr /\ ev.originalURL = <<r.OriginalURL>>

\* C13: a Resolve that returns a destination schedules exactly one click
\* increment, one that returns NotFound, Expired or another error schedules
\* none, and when the store answers the increments, from some point on the
\* click counter of every stored record equals the number of Resolve calls
\* that returned a destination for its code.
C13_ClicksCatchUp ==
    /\ [][ev'.kind = "Resolve"
          => CopiesIn(ClickTask(ev'.shortCode), tasks')
                = CopiesIn(ClickTask(ev'.shortCode), tasks)
                     + (IF ev'.err = NoErr THEN 1 ELSE 0)]_vars
    /\ <>[](\A r \in urls : r.Clicks = served[r.ShortCode])

\* two Resolve calls returned the destination and both increments are applied
C13_TwoClicksCounted ==
    \E r \in urls : r.Clicks = 2 /\ served[r.ShortCode] = 2


\* C14: in every reachable state the click counter of a stored record is at
\* most the number of successful Resolve calls made for that record since it
\* was created, also when its alias was deleted and issued again while
\* increments scheduled for the earlier record were pending.
C14_ClicksWithinResolves ==
    \A r \in urls : r.Clicks <= served[r.ShortCode]


\* C15: every cache entry of a record is scheduled to leave the cache no later
\* than the default TTL after it was written and, for a record that expires,
\* no later than the record's expiration instant.
C15_CacheEntryWithinExpiration ==
    \A c \in AliasCodes \cup GeneratedCodes :
        CacheKey(c) \in DOMAIN redis
        => LET e == redis[CacheKey(c)]
           IN  /\ e.exp # Nil
               /\ e.exp[1] <= now + CacheTTL
               /\ "expires_at" \in DOMAIN e.val => e.exp[1] <= e.val.expires_at


\* C16: a Create without alias makes at most maxRetries generation attempts;
\* when every candidate is taken and the store answers, the last attempt
\* fails with the error of generateUniqueCode, and that step stores no record
\* and starts no cache write.
C16_GenerationExhausted ==
    [][\A p \in Procs :
          LET exhausted == /\ ev'.kind = "Create"
                           /\ Is(ev'.err, "failed to generate unique code after retries")
              lastAttempt == /\ pc[p] = "generate"
                             /\ req[p].i = maxRetries - 1
                             /\ pc'[p] # pc[p]
          IN  /\ pc'[p] = "generate" => req'[p].i < maxRetries
              /\ (lastAttempt /\ GeneratedCodes \subseteq {r.ShortCode : r \in urls})
                 => exhausted \/ (ev'.kind = "Create" /\ ev'.storeDown)
              /\ (exhausted /\ pc'[p] # pc[p])
                 => /\ lastAttempt
                    /\ pc'[p] = "idle"
                    /\ ev'.status = 500
                    /\ urls' = urls
                    /\ tasks' = tasks
                    /\ redis' = redis]_vars

\* a Create without alias has just failed after maxRetries collisions
C16_AllCandidatesCollided ==
    /\ ev.kind = "Create"
    /\ Is(ev.err, "failed to generate unique code after retries")
    /\ GeneratedCodes \subseteq {r.ShortCode : r \in urls}


\* C17: when the store answers, a Create under a custom alias for which no
\* record is stored succeeds and stores the record under the lower-cased
\* alias; a Create under an alias whose lower-cased form is stored fails with
\* ErrCodeTaken and leaves every stored record, its destination and its click
\* counter as they were.
C17_AliasTakenLeavesRecord ==
    [][(/\ ev'.kind = "Create"
        /\ ev'.shortCode # <<>>
        /\ ~ev'.storeDown
        /\ ~Is(ev'.err, ErrInvalidCode))
       => IF RowsOf(urls, ev'.shortCode) = {}
          THEN /\ ev'.err = NoErr
               /\ \E p \in Procs :
                     /\ pc[p] = "insert"
                     /\ pc'[p] = "idle"
                     /\ ev'.shortCode = ToLower(req[p].r.CustomAlias)
                     /\ \E r \in urls' :
                           /\ urls' = urls \cup {r}
                           /\ r.ShortCode = ev'.shortCode
                           /\ r.OriginalURL = req[p].r.URL
                           /\ r.Clicks = 0
          ELSE /\ Is(ev'.err, ErrCodeTaken)
               /\ ev'.status = 409
               /\ urls' = urls]_vars

\* a Create under the alias of a record that has been clicked failed with
\* ErrCodeTaken
C17_TakenAliasWithClicks ==
    /\ ev.kind = "Create"
    /\ Is(ev.err, ErrCodeTaken)
    /\ \E r \in urls : r.ShortCode = ev.shortCode /\ r.Clicks > 0


\* C18: Create answers ErrInvalidURL exactly for the URLs that do not begin
\* with http:// or https:// or are shorter than 10 or longer than 2083
\* characters; every other URL passes the validation, the URLs of 10 and of
\* 2083 characters among them.
C18_InvalidURLExactly ==
    ev.kind = "Create"
    => LET u == ev.r.URL
           begins(s) == \A i \in 1..Len(s) : i <= Len(u.head) /\ u.head[i] = s[i]
           scheme == begins(<<"h","t","t","p",":","/","/">>)
                        \/ begins(<<"h","t","t","p","s",":","/","/">>)
       IN  Is(ev.err, ErrInvalidURL) <=> (~scheme \/ u.len < 10 \/ u.len > 2083)

\* a URL of 2083 characters is stored and one of 2084 has just been rejected
C18_LongestURLStored ==
    /\ ev.kind = "Create" /\ Is(ev.err, ErrInvalidURL) /\ ev.status = 400
    /\ ev.r.URL.len = 2084 /\ HasPrefix(ev.r.URL.head, HTTPPrefix)
    /\ \E r \in urls : r.OriginalURL.len = 2083


C20_GeneratedCodeFresh ==
    [][(ev'.kind = "Create" /\ ev'.err = NoErr /\ ev'.r.CustomAlias = <<>>)
       => LET c == ev'.shortCode
              alphabet == Digits \o Upper \o Lower
          IN  /\ Len(c) = 8
              /\ Len(alphabet) = 62
              /\ \E bytes \in RandomBytes :
                    \A i \in 1..8 : c[i] = alphabet[(bytes[i] % 62) + 1]
              /\ \A r \in urls : r.ShortCode # c
              /\ \E r \in urls' : r.ShortCode = c /\ urls' = urls \cup {r}]_vars

\* a generated code has just been stored beside another generated code and
\* an alias
C20_SecondGeneratedCode ==
    /\ ev.kind = "Create" /\ ev.err = NoErr /\ ev.r.CustomAlias = <<>>
    /\ \E r \in urls : r.ShortCode \in GeneratedCodes \ {ev.shortCode}
    /\ \E r \in urls : r.ShortCode \in AliasCodes


\* C21: a sweep that the store answers removes exactly the records whose
\* expiration is set and before the instant of the sweep, and reports their
\* number; it keeps every record without expiration or with an expiration
\* not yet past, and a sweep that fails removes nothing.
C21_SweepRemovesExactlyExpired ==
    [][ev'.kind = "Sweep"
       => IF ev'.err = NoErr
          THEN /\ urls' \subseteq urls
               /\ \A r \in urls :
                     r \in urls' <=> (r.ExpiresAt = Nil \/ r.ExpiresAt[1] >= now)
               /\ \A r \in urls' : ~(r.ExpiresAt # Nil /\ r.ExpiresAt[1] < now')
               /\ ev'.count = Cardinality(urls \ urls')
          ELSE urls' = urls]_vars

\* a sweep has just removed the one expired record
C21_SweptExpiredRecord ==
    ev.kind = "Sweep" /\ ev.err = NoErr /\ ev.count = 1 /\ urls = {}


\* C22: whenever no request stands between the INCR and the EXPIRE of
\* IncrementRateLimit, every rate-window counter in the cache has an
\* expiration, no later than the window duration after now.
C22_WindowCounterExpires ==
    (\A p \in Procs : pc[p] # "expire")
    => \A k \in DOMAIN redis :
          k[1] = "ratelimit:"
          => redis[k].exp # Nil /\ redis[k].exp[1] <= now + windowSize


\* C23 as stated: every request that passes through the rate limiter gets the
\* limit, remaining and reset headers.
C23_EveryRequestGetsHeaders ==
    ev.kind = "RateLimit"
    => {"XRateLimitLimit", "XRateLimitRemaining", "XRateLimitReset"}
          \subseteq DOMAIN ev.header

\* C23, amended: every request whose increment of the window counter
\* succeeded gets limit = budget, remaining = max(0, budget - count) and
\* reset = window start + window duration; it is rejected exactly when count
\* exceeds the budget, and then it also gets status 429 and a Retry-After
\* equal to the seconds left until the window ends.
C23_HeadersWhenCounted ==
    (ev.kind = "RateLimit" /\ ~ev.incrErr)
    => LET h == ev.header
           left == ev.limit - ev.count
       IN  /\ h.XRateLimitLimit = ev.limit
           /\ h.XRateLimitRemaining = (IF left > 0 THEN left ELSE 0)
           /\ h.XRateLimitReset = ev.window + 60
           /\ ev.window % 60 = 0 /\ ev.window <= now
           /\ IF ev.count > ev.limit
              THEN /\ ev.status = 429 /\ ~ev.next
                   /\ h.RetryAfter = ev.window + 60 - now
                   /\ h.RetryAfter > 0
              ELSE /\ ev.next /\ ev.status # 429
                   /\ "RetryAfter" \notin DOMAIN h

\* a request over the budget has just been rejected in the second window
C23_RejectedWithRetryAfter ==
    /\ ev.kind = "RateLimit" /\ ev.status = 429
    /\ ev.header.XRateLimitRemaining = 0
    /\ ev.window = 60
    /\ ev.header.RetryAfter = 60 - (now - 60)


C25_ErrorsMapToStatus ==
    (ev.kind \in {"Create", "Resolve", "GetStats", "Delete"} /\ ev.err # NoErr)
    => LET class == IF ev.err = <<"URL not found">> THEN 404
                    ELSE IF ev.err = <<"URL has expired">> THEN 410
                    ELSE IF ev.err = <<"short code already taken">> THEN 409
                    ELSE IF ev.err = <<"invalid short code format">> THEN 400
                    ELSE IF ev.err = <<"invalid URL format">> THEN 400
                    ELSE 500
           b == ev.body[1]
       IN  /\ ev.status = class
           /\ b.code = (CASE class = 404 -> "NOT_FOUND"
                          [] class = 410 -> "EXPIRED"
                          [] class = 409 -> "CONFLICT"
                          [] class = 400 -> "INVALID_INPUT"
                          [] class = 500 -> "INTERNAL_ERROR")
           /\ class = 500
              => /\ b = [error |-> "Internal server error",
                         code |-> "INTERNAL_ERROR", details |-> ""]
                 /\ \A i \in 1..Len(ev.err) :
                       ev.err[i] \notin {b.error, b.code, b.details}

\* a store failure behind a wrapped error has just been answered with 500
C25_StoreFailureIsInternal ==
    /\ ev.kind \in {"Create", "Resolve", "GetStats", "Delete"}
    /\ ev.status = 500 /\ ev.storeDown /\ Len(ev.err) > 1


\* C26: OptionalKey never answers the request itself: the request goes on to
\* the handler, with the key attached when it presented the secret of an
\* active key and the store answered the lookup, and with no key attached
\* when it presented no secret, a secret of no active key, or the lookup
\* failed.
C26_OptionalKeyPassesThrough ==
    ev.kind = "Auth"
    => LET c == ev.request
           secret == IF c.header.XAPIKey # <<>> THEN c.header.XAPIKey
                     ELSE TrimPrefix(c.header.Authorization, Bearer)
           holders == {k \in api_keys : k.IsActive /\ k.KeyHash = <<"sha256", secret>>}
       IN  /\ ~ev.abort /\ ev.status # 401
           /\ pc[ev.slot] = "handler"
           /\ req[ev.slot].c.keys.api_key = ev.key
           /\ ev.key # Nil <=> (secret # <<>> /\ holders # {} /\ ~ev.storeDown)
           /\ ev.key # Nil => \E k \in holders : k.ID = ev.key[1].ID

\* the secret of a deactivated key went through with no key attached
C26_RevokedKeyPassedThrough ==
    /\ ev.kind = "Auth" /\ ~ev.abort /\ ev.key = Nil /\ ~ev.storeDown
    /\ ev.request.header.Authorization = Bearer \o SecretRevoked
    /\ pc[ev.slot] = "handler"


\* C27: the cleanup job sweeps only when its ticker has sent a tick, a sweep
\* that fails leaves the job running, the job returns only after its context
\* was cancelled, after the cancellation no sweep removes a record, a job
\* that returned sweeps no more, and once the context is cancelled the job
\* eventually returns.
C27_CleanupStopsOnCancel ==
    /\ [][/\ ev'.kind = "Sweep"
             => /\ job.tick /\ ~job'.tick
                /\ ~job.stopped /\ ~job'.stopped
                /\ job.cancelled => urls' = urls /\ ev'.err # NoErr
          /\ (job'.stopped /\ ~job.stopped) => job.cancelled
          /\ job.stopped => job'.stopped /\ urls' \subseteq urls
          /\ job.cancelled => job'.cancelled]_vars
    /\ (job.cancelled ~> job.stopped)

\* the job has returned after a sweep of its failed and a later one removed
\* the expired record
C27_StoppedAfterSweeps ==
    /\ job.stopped /\ ev.kind = "CleanupStopped"
    /\ urls = {} /\ nextID > 1


\* C28: a Resolve answered from the cache is answered in the step of the
\* cache read, without the step that reads the store, and leaves the cache
\* and the store as they are; a Resolve schedules a cache write exactly when
\* the cache gave no record and the store returned one.
C28_HitReadsNoStore ==
    [][ev'.kind = "Resolve"
       => LET cacheWrites(b) == {t \in BagToSet(b) : t.kind = "cacheURL"}
              scheduled == \E t \in cacheWrites(tasks') :
                              CopiesIn(t, tasks') > CopiesIn(t, tasks)
          IN  /\ redis' = redis /\ urls' = urls
              /\ ev'.src = "cache"
                 => /\ ~scheduled
                    /\ \A p \in Procs : pc[p] = "db" => pc'[p] = "db"
                    /\ CacheKey(ev'.shortCode) \in DOMAIN redis
              /\ scheduled <=> (ev'.src = "store" /\ ev'.record # Nil)]_vars

\* a Resolve has just been answered from the cache and no cache write is
\* pending
C28_ServedFromCache ==
    /\ ev.kind = "Resolve" /\ ev.src = "cache" /\ ev.err = NoErr
    /\ \A t \in BagToSet(tasks) : t.kind # "cacheURL"
    /\ \E r \in urls : r.ShortCode = ev.shortCode

\* C29: a Resolve whose code the cache did not give and the store does not
\* hold answers ErrURLNotFound in the one step that reads the store, when the
\* store answers; the step schedules no cache write and no click increment
\* and changes neither the store nor the cache.
C29_NotFoundHasNoEffect ==
    [][\A p \in Procs :
          /\ (pc[p] = "db" /\ pc'[p] # "db" /\ req[p].op = "Resolve"
                 /\ ev'.kind = "Resolve" /\ ~ev'.storeDown
                 /\ RowsOf(urls, req[p].shortCode) = {})
             => /\ ev'.err = <<"URL not found">>
                /\ ev'.status = 404
          /\ (ev'.kind = "Resolve" /\ Is(ev'.err, ErrURLNotFound) /\ pc'[p] # pc[p])
             => /\ pc[p] = "db" /\ pc'[p] = "idle"
                /\ RowsOf(urls, ev'.shortCode) = {}
                /\ tasks' = tasks /\ urls' = urls /\ redis' = redis
                /\ served' = served]_vars

\* a Resolve of a code that is neither cached nor stored has just answered 404
C29_UnknownCodeNotFound ==
    /\ ev.kind = "Resolve" /\ ev.status = 404 /\ ~ev.cacheErr
    /\ RowsOf(urls, ev.shortCode) = {}
    /\ CacheKey(ev.shortCode) \notin DOMAIN redis


\* C30: the expiration of a window counter changes only in the EXPIRE of the
\* request whose INCR returned 1, and only from none to a value: once set it
\* is never changed, however many requests the window counts afterwards.
C30_ExpirationSetOnce ==
    [][\A k \in DOMAIN redis' :
          LET before == IF k \in DOMAIN redis THEN redis[k].exp ELSE Nil
          IN  (k[1] = "ratelimit:" /\ redis'[k].exp # before)
                 => /\ before = Nil
                    /\ \E p \in Procs :
                          /\ pc[p] = "expire" /\ pc'[p] # "expire"
                          /\ req[p].key = k /\ req[p].count = 1
                          /\ redis'[k].exp = <<now + windowSize>>]_vars

\* a window counter that has an expiration has just counted a request beyond
\* its first
C30_LaterRequestCounted ==
    /\ ev.kind = "RateLimit" /\ ~ev.incrErr /\ ev.count >= 2
    /\ LET k == RateLimitKey(ev.identifier, ev.window)
       IN  k \in DOMAIN redis /\ redis[k].exp # Nil /\ redis[k].val.int >= 2


\* C31 as stated: on the /api routes a request enters the authenticator only
\* from the rate limiter and a handler only from the authenticator, a request
\* answered 429 ends there without a change of the store, and every request
\* that arrives increments the window counter of its identity.
C31_EveryRequestCounted ==
    [][/\ \A p \in Procs :
           /\ (pc'[p] = "auth" /\ pc[p] # "auth")
              => /\ pc[p] \in {"idle", "expire"}
                 /\ ev'.kind = "RateLimit" /\ ev'.slot = p /\ ev'.next
           /\ (pc[p] \in {"idle", "expire", "auth"}
                 /\ pc'[p] \notin {"idle", "expire", "auth"})
              => /\ pc[p] = "auth" /\ pc'[p] = "handler"
                 /\ ev'.kind = "Auth" /\ ev'.slot = p /\ ~ev'.abort
       /\ (ev'.kind = "RateLimit" /\ ~ev'.next)
          => /\ ev'.status = 429 /\ pc'[ev'.slot] = "idle"
             /\ urls' = urls /\ api_keys' = api_keys /\ tasks' = tasks
       /\ nreq' = nreq + 1
          => \E p \in Procs :
                /\ pc[p] = "idle"
                /\ pc'[p] = "expire" \/ (ev'.kind = "RateLimit" /\ ev'.slot = p)
                /\ LET l == IF pc'[p] = "expire" THEN req'[p]
                            ELSE [window |-> ev'.window, c |-> ev'.request]
                       k == RateLimitKey(getClientIdentifier(l.c), l.window)
                       before == IF k \in DOMAIN redis THEN redis[k].val.int ELSE 0
                   IN  (k \in DOMAIN redis' /\ redis'[k].val.int = before + 1)]_vars

\* C31: on the /api routes a request enters the authenticator only from the
\* rate limiter and a handler only from the authenticator, a request answered
\* 429 ends there without a change of the store, and every request that
\* arrives increments the window counter of its identity unless the cache
\* fails the increment, in which case the cache is unchanged and the request
\* is passed on.
C31_LimiterBeforeAuthenticator ==
    [][/\ \A p \in Procs :
           /\ (pc'[p] = "auth" /\ pc[p] # "auth")
              => /\ pc[p] \in {"idle", "expire"}
                 /\ ev'.kind = "RateLimit" /\ ev'.slot = p /\ ev'.next
           /\ (pc[p] \in {"idle", "expire", "auth"}
                 /\ pc'[p] \notin {"idle", "expire", "auth"})
              => /\ pc[p] = "auth" /\ pc'[p] = "handler"
                 /\ ev'.kind = "Auth" /\ ev'.slot = p /\ ~ev'.abort
       /\ (ev'.kind = "RateLimit" /\ ~ev'.next)
          => /\ ev'.status = 429 /\ pc'[ev'.slot] = "idle"
             /\ urls' = urls /\ api_keys' = api_keys /\ tasks' = tasks
       /\ nreq' = nreq + 1
          => \E p \in Procs :
                /\ pc[p] = "idle"
                /\ pc'[p] = "expire" \/ (ev'.kind = "RateLimit" /\ ev'.slot = p)
                /\ LET l == IF pc'[p] = "expire" THEN req'[p]
                            ELSE [window |-> ev'.window, c |-> ev'.request]
                       k == RateLimitKey(getClientIdentifier(l.c), l.window)
                       before == IF k \in DOMAIN redis THEN redis[k].val.int ELSE 0
                   IN  \/ (k \in DOMAIN redis' /\ redis'[k].val.int = before + 1)
                       \/ /\ ev'.kind = "RateLimit" /\ ev'.incrErr /\ ev'.next
                          /\ redis' = redis]_vars

\* a request on an /api route has just been answered 429 and counted
C31_RejectedAndCounted ==
    /\ ev.kind = "RateLimit" /\ ev.status = 429 /\ ev.request.route = "delete"
    /\ ev.count > defaultLimit


\* C32: a Delete answers success exactly when its DELETE removed the record
\* of the code from the store, whether the cache invalidation that follows
\* succeeds or fails; a Delete of a code without a record answers
\* ErrURLNotFound in the step of the DELETE, attempts no invalidation and
\* leaves the store and the cache unchanged.
C32_DeleteSucceedsIffRemoved ==
    [][\A p \in Procs :
          /\ (pc'[p] = "invalidate" /\ pc[p] # "invalidate")
             => /\ RowsOf(urls, req'[p].shortCode) # {}
                /\ urls' = urls \ RowsOf(urls, req'[p].shortCode)
                /\ redis' = redis
          /\ (pc[p] = "invalidate" /\ pc'[p] # "invalidate")
             => /\ ev'.kind = "Delete" /\ ev'.shortCode = req[p].shortCode
                /\ ev'.err = NoErr /\ ev'.status = 204
                /\ ev'.cacheDown => redis' = redis
                /\ ~ev'.cacheDown => CacheKey(ev'.shortCode) \notin DOMAIN redis'
          /\ (ev'.kind = "Delete" /\ pc'[p] # pc[p])
             => /\ ev'.err = NoErr <=> pc[p] = "invalidate"
                /\ ev'.err # NoErr => urls' = urls /\ redis' = redis
                /\ (RowsOf(urls, ev'.shortCode) = {} /\ pc[p] # "invalidate"
                       /\ ~ev'.storeDown)
                   => ev'.err = <<"URL not found">> /\ ev'.status = 404
                /\ Is(ev'.err, ErrURLNotFound)
                   => RowsOf(urls, ev'.shortCode) = {} /\ pc[p] # "invalidate"]_vars

\* a Delete has just answered success although its cache invalidation failed
\* and the cache still holds the entry of the code
C32_DeletedCacheDown ==
    /\ ev.kind = "Delete" /\ ev.err = NoErr /\ ev.cacheDown
    /\ RowsOf(urls, ev.shortCode) = {}
    /\ CacheKey(ev.shortCode) \in DOMAIN redis


C34_NoCacheWriteForExpired ==
    [][ev'.kind = "Resolve"
       => \A t \in BagToSet(tasks') :
             (t.kind = "cacheURL" /\ CopiesIn(t, tasks') > CopiesIn(t, tasks))
                => ~(t.url.ExpiresAt # Nil /\ now > t.url.ExpiresAt[1])]_vars


\* C35: a step of Create that answers an error, and every step of Create before
\* the insert, leaves the store, the cache and the background work as they
\* are; a Create starts a cache write only in the step whose insert stored
\* the record, and for that record.
C35_FailedCreateHasNoEffect ==
    [][/\ (ev'.kind = "Create" /\ ev'.err # NoErr)
          => /\ urls' = urls /\ redis' = redis /\ tasks' = tasks
             /\ ev'.status \in {400, 409, 500}
       /\ \A p \in Procs :
             (pc'[p] \in {"generate", "exists", "insert"} /\ req'[p] # req[p])
                => urls' = urls /\ redis' = redis /\ tasks' = tasks
       /\ (ev'.kind = "Create" /\ ev'.err = NoErr)
          => /\ RowsOf(urls, ev'.shortCode) = {}
             /\ urls' = urls \cup {ev'.url[1]}
             /\ redis' = redis
             /\ tasks' = tasks (+) SetToBag({[kind |-> "cacheURL", url |-> ev'.url[1]]})]_vars

\* a Create has just failed for want of a free generated code while records
\* are stored and cached
C35_FailedBesideCachedRecords ==
    /\ ev.kind = "Create"
    /\ Is(ev.err, "failed to generate unique code after retries")
    /\ \E r \in urls : CacheKey(r.ShortCode) \in DOMAIN redis


\* C36: while a record is stored under a code, expired or not, a Create with
\* that code that reaches an answering store is answered ErrCodeTaken and
\* never passes the availability check; a Create succeeds only when no record
\* is stored under its code, and records leave the store only by the sweep
\* or by a Delete.
C36_ExpiredCodeStaysTaken ==
    [][/\ (ev'.kind = "Create" /\ ev'.status # 400 /\ ~ev'.storeDown
             /\ \E r \in urls : r.ShortCode = ev'.shortCode)
          => ev'.err = <<"short code already taken">> /\ ev'.status = 409
       /\ (ev'.kind = "Create" /\ ev'.err = NoErr)
          => \A r \in urls : r.ShortCode # ev'.shortCode
       /\ \A p \in Procs :
             (pc'[p] = "insert" /\ pc[p] # "insert")
                => \A r \in urls : r.ShortCode # req'[p].shortCode
       /\ (\E r \in urls : \A q \in urls' : q.ShortCode # r.ShortCode)
          => \/ ev'.kind = "Sweep" /\ ev'.err = NoErr
             \/ \E p \in Procs : pc[p] # "invalidate" /\ pc'[p] = "invalidate"]_vars

\* a Create has just been answered ErrCodeTaken because of a record that is
\* past its expiration and still stored
C36_TakenByExpiredRecord ==
    /\ ev.kind = "Create" /\ Is(ev.err, ErrCodeTaken) /\ ~ev.lost
    /\ \E r \in urls :
          r.ShortCode = ev.shortCode /\ r.ExpiresAt # Nil /\ now > r.ExpiresAt[1]


\* C37: a GetStats changes neither the store nor the cache nor the background
\* work, so no click is counted; it answers ErrURLNotFound exactly when the
\* store answers and holds no record of the code, and otherwise, when the
\* store answers, the fields of the stored record, whatever the cache holds
\* and whether the record is past its expiration or not.
C37_StatsReadOnlyFromStore ==
    [][ev'.kind = "GetStats"
       => LET stored == {r \in urls : r.ShortCode = ev'.shortCode}
          IN  /\ urls' = urls /\ redis' = redis /\ tasks' = tasks /\ served' = served
              /\ ev'.err = <<"URL not found">> <=> (stored = {} /\ ~ev'.storeDown)
              /\ ev'.err = NoErr <=> (stored # {} /\ ~ev'.storeDown)
              /\ ev'.err = NoErr
                 => ev'.status = 200 /\ ev'.stats # Nil /\ ev'.stats[1] \in stored
              /\ ev'.storeDown => ev'.status = 500]_vars

\* a GetStats has just answered the counted clicks of a record that is past
\* its expiration, beside a cache entry of the code that holds another count
C37_StatsOfExpiredRecord ==
    /\ ev.kind = "GetStats" /\ ev.err = NoErr
    /\ ev.stats[1].ExpiresAt # Nil /\ now > ev.stats[1].ExpiresAt[1]
    /\ ev.stats[1].Clicks > 0
    /\ CacheKey(ev.shortCode) \in DOMAIN redis
    /\ UnmarshalURL(redis[CacheKey(ev.shortCode)].val).Clicks # ev.stats[1].Clicks


\* C38: a cache write is started only by a Create that stored the record and
\* by a Resolve that found the record in the store after a miss, and for that
\* record; an entry of the URL cache is written only by such a cache write,
\* under the code of its record; so every entry holds a record that the store
\* held under the entry's code, with the identifier the store gave it.
C38_CacheEntriesAreSnapshots ==
    [][/\ \A t \in BagToSet(tasks') :
             (t.kind = "cacheURL" /\ CopiesIn(t, tasks') > CopiesIn(t, tasks))
                => /\ t.url \in urls \cup urls'
                   /\ \/ ev'.kind = "Create" /\ ev'.err = NoErr /\ ev'.url = <<t.url>>
                      \/ /\ ev'.kind = "Resolve" /\ ev'.src = "store"
                         /\ ev'.record = <<t.url>>
       /\ \A k \in DOMAIN redis' :
             (k[1] = "url:" /\ (k \notin DOMAIN redis \/ redis'[k] # redis[k]))
                => \E t \in BagToSet(tasks) :
                      /\ t.kind = "cacheURL" /\ tasks' = tasks (-) SetToBag({t})
                      /\ k = <<"url:", t.url.ShortCode>>
                      /\ UnmarshalURL(redis'[k].val) = t.url
       /\ \A k \in DOMAIN redis' :
             k[1] = "url:"
                => LET u == UnmarshalURL(redis'[k].val)
                   IN  /\ k = <<"url:", u.ShortCode>>
                       /\ u.ID \in 1..(nextID' - 1)
                       /\ u.ShortCode \in DOMAIN served']_vars

\* the cache holds the entry of a record that the store no longer holds,
\* written for a Resolve that found it there
C38_SnapshotOutlivesRecord ==
    /\ \E k \in DOMAIN redis :
          /\ k[1] = "url:"
          /\ \A r \in urls : r.ShortCode # k[2]
          /\ UnmarshalURL(redis[k].val).Clicks > 0


\* C39: a sweep leaves the cache as it is, and a Resolve of a code whose
\* record a sweep removed, the code not issued since, returns no destination:
\* ErrURLExpired when the cache gives a record and ErrURLNotFound when the
\* store is asked and answers.
C39_SweptNeverResolves ==
    [][/\ ev'.kind = "Sweep" => redis' = redis
       /\ (ev'.kind = "Resolve" /\ ev'.shortCode \in swept)
          => /\ ev'.err # NoErr /\ ev'.originalURL = Nil
             /\ ev'.src = "cache" => ev'.err = <<"URL has expired">>
             /\ (ev'.src = "store" /\ ~ev'.storeDown)
                => ev'.err = <<"URL not found">>]_vars

====
